---------------------------- MODULE Spec2Model ----------------------------
(***************************************************************************)
(* A model of micron-rust: the interpreter (src/micron/src/interpreter.rs) *)
(* as a stack machine that unfolds the recursion of interpret,             *)
(* interpret_instrs and interpret_fun_call, and the parser                 *)
(* (src/micron/src/parser.rs) as operators over token lines.               *)
(*                                                                         *)
(* A Rust String is modelled as the sequence of its Unicode scalar values  *)
(* (code points as integers): "h" is <<104>>.  Indices are 0-based as in   *)
(* the source; a TLA+ sequence is read at index + 1.                       *)
(***************************************************************************)
EXTENDS Integers, Sequences, FiniteSets, TLC

(***************************************************************************)
(* Bounds of the model.                                                    *)
(***************************************************************************)
\* longest generated program (number of instructions)
MaxInstrs == 3
\* deepest call stack explored (frames of the three interpreter functions)
MaxStack == 8
\* most stdout callback invocations explored in one run
MaxOut == 2
\* longest generated token list handed to parse
MaxTokens == 4
\* longest generated source text handed to tokenize
MaxChars == 4

(***************************************************************************)
(* parser.rs: Value, Expr, Fun, Instr, InstrInfo                           *)
(***************************************************************************)
StrV(s) == [t |-> "Str", s |-> s]
IntV(n) == [t |-> "Int", n |-> n]
NoneV == [t |-> "None"]

ExprValue(v) == [e |-> "Value", v |-> v]
ExprFunCall(fun) == [e |-> "FunCall", fun |-> fun]

\* a Fun variant with its argument expressions, in declaration order
Fun(f, args) == [f |-> f, args |-> args]

LabelPlaceHolder(name) == [instr |-> "LabelPlaceHolder", name |-> name]
InstrFunCall(fun) == [instr |-> "FunCall", fun |-> fun]

InstrInfo(instr, start, end) == [instr |-> instr, start |-> start, end |-> end]

(***************************************************************************)
(* Text helpers: the std functions the interpreter calls.                  *)
(***************************************************************************)
RECURSIVE DecDigits(_)
DecDigits(n) ==
    IF n < 10 THEN <<48 + n>> ELSE DecDigits(n \div 10) \o <<48 + (n % 10)>>

\* a rendering that drops the sign
to_string_unsigned(n) == IF n < 0 THEN DecDigits(-n) ELSE DecDigits(n)

\* isize::to_string
to_string(n) == IF n < 0 THEN <<45>> \o DecDigits(-n) ELSE DecDigits(n)

IsDigit(c) == c >= 48 /\ c <= 57

RECURSIVE DigitsValue(_)
DigitsValue(ds) ==
    IF Len(ds) = 0 THEN 0
    ELSE 10 * DigitsValue(SubSeq(ds, 1, Len(ds) - 1)) + (ds[Len(ds)] - 48)

RECURSIVE StripZeros(_)
\* the digits without their leading zeros
StripZeros(ds) ==
    IF Len(ds) > 0 /\ ds[1] = 48 THEN StripZeros(SubSeq(ds, 2, Len(ds))) ELSE ds

RECURSIVE DigitsLeq(_, _)
\* a <= b as numbers, for digit strings of one length
DigitsLeq(a, b) ==
    IF Len(a) = 0 THEN TRUE
    ELSE IF a[1] # b[1] THEN a[1] < b[1]
    ELSE DigitsLeq(SubSeq(a, 2, Len(a)), SubSeq(b, 2, Len(b)))

\* the digits of isize::MAX = 9223372036854775807 (a 64-bit isize)
IsizeMaxDigits ==
    <<57, 50, 50, 51, 51, 55, 50, 48, 51, 54, 56, 53, 52, 55, 55, 53, 56, 48, 55>>
\* the digits of -isize::MIN = 9223372036854775808
IsizeMinDigits ==
    <<57, 50, 50, 51, 51, 55, 50, 48, 51, 54, 56, 53, 52, 55, 55, 53, 56, 48, 56>>

\* the magnitude ds, negated or not, is an isize
InIsizeRange(ds, negative) ==
    LET m == StripZeros(ds)
        limit == IF negative THEN IsizeMinDigits ELSE IsizeMaxDigits
    IN  \/ Len(m) < Len(limit)
        \/ Len(m) = Len(limit) /\ DigitsLeq(m, limit)

\* str::parse::<isize>: an optional sign, then at least one digit and only
\* digits, and a value in the isize range
parse_isize(s) ==
    LET signed == Len(s) > 0 /\ s[1] \in {43, 45}
        ds == IF signed THEN SubSeq(s, 2, Len(s)) ELSE s
    IN  IF Len(ds) = 0 \/ \E j \in 1..Len(ds) : ~IsDigit(ds[j])
        THEN [ok |-> FALSE]
        ELSE IF ~InIsizeRange(ds, signed /\ s[1] = 45) THEN [ok |-> FALSE]
        ELSE [ok |-> TRUE,
              n |-> IF signed /\ s[1] = 45 THEN 0 - DigitsValue(ds)
                    ELSE DigitsValue(ds)]

\* char::is_whitespace, on the characters the model feeds to stdin
IsWhitespace(c) == c \in {9, 10, 11, 12, 13, 32}

RECURSIVE TrimStart(_)
TrimStart(s) ==
    IF Len(s) > 0 /\ IsWhitespace(s[1]) THEN TrimStart(SubSeq(s, 2, Len(s))) ELSE s

RECURSIVE TrimEnd(_)
TrimEnd(s) ==
    IF Len(s) > 0 /\ IsWhitespace(s[Len(s)])
    THEN TrimEnd(SubSeq(s, 1, Len(s) - 1)) ELSE s

\* str::trim
trim(s) == TrimEnd(TrimStart(s))

\* the UTF-8 length of one scalar value
Utf8Len(c) == IF c < 128 THEN 1 ELSE IF c < 2048 THEN 2 ELSE IF c < 65536 THEN 3 ELSE 4

RECURSIVE str_len(_)
\* String::len: the length in bytes
str_len(s) == IF Len(s) = 0 THEN 0 ELSE Utf8Len(s[1]) + str_len(SubSeq(s, 2, Len(s)))

\* char::from_u32(int as u32) for an int of the model's range: a negative
\* int casts to a u32 of at least 2^31, which is no scalar value
from_u32_ok(int) ==
    /\ int >= 0
    /\ int <= 1114111
    /\ ~(int >= 55296 /\ int <= 57343)

\* an isize beyond the integers of the model: the Int hi * 2^32 + lo, for
\* hi # 0 and 0 <= lo < 2^31 (a 64-bit isize)
IntWide(hi, lo) == [t |-> "Int", hi |-> hi, lo |-> lo]

\* `int as u32`, as far as char::from_u32 tells the results apart: the cast
\* keeps the low 32 bits
as_u32(value) == IF "hi" \in DOMAIN value THEN value.lo ELSE value.n

NoNote == [some |-> FALSE]
Note(text) == [some |-> TRUE, text |-> text]

(***************************************************************************)
(* tokenizer.rs: Token, TokenInfo, TokenCheck                              *)
(***************************************************************************)
\* a punctuation token: Til Col Smi Dot Eol Dol Que Eql Not Hsh
Tok(name) == [token |-> name]
TokStr(s) == [token |-> "Str", s |-> s]
TokInt(n) == [token |-> "Int", n |-> n]
TokIdn(s) == [token |-> "Idn", s |-> s]

TokenInfo(start, end, token) == [token |-> token, start |-> start, end |-> end]

IsLetter(c) == (c >= 97 /\ c <= 122) \/ (c >= 65 /\ c <= 90)

\* TokenCheck::is_iden, lines 263-283: the outer loop is not entered for
\* the empty string
is_iden(s) ==
    \/ Len(s) = 0
    \/ /\ IsLetter(s[1]) \/ s[1] = 95
       /\ \A j \in 1..Len(s) : IsLetter(s[j]) \/ IsDigit(s[j]) \/ s[j] = 95

(***************************************************************************)
(* tokenizer.rs: TokenizerError, ErrorInfo, and the inner loops of         *)
(* tokenize.  chars is the sequence of the source's characters; the Char   *)
(* at index i (counted from 0) is chars[i + 1] and its n is i.             *)
(***************************************************************************)
SyntaxError(start, end, msg) ==
    [error |-> "SyntaxError", start |-> start, end |-> end, msg |-> msg]

\* TokenizerError::error_code, lines 83-90
tokenizer_error_code(error) == 201

\* the characters of lines 105-114
PunctChars == {126, 58, 46, 10, 36, 59, 63, 61, 33, 35}

\* the Token of a character of lines 105-114
PunctToken(c) ==
    CASE c = 126 -> Tok("Til")
      [] c = 58 -> Tok("Col")
      [] c = 46 -> Tok("Dot")
      [] c = 10 -> Tok("Eol")
      [] c = 36 -> Tok("Dol")
      [] c = 59 -> Tok("Smi")
      [] c = 63 -> Tok("Que")
      [] c = 61 -> Tok("Eql")
      [] c = 33 -> Tok("Not")
      [] c = 35 -> Tok("Hsh")

\* a comment that ends with its opening bracket
CommentEnd_at_once(cs, k) == k - 1

\* an escape match without the arms for n and t
Escaped_plain(c) == c

\* an integer loop that breaks on a letter as on any other character
IntEnd_no_letter(cs, k) ==
    [k |-> CHOOSE m \in k..Len(cs) :
               /\ \A x \in k..(m - 1) : IsDigit(cs[x + 1])
               /\ m < Len(cs) => ~IsDigit(cs[m + 1]),
     letter |-> FALSE]

IsIdnStart(c) == IsLetter(c) \/ c = 95
IsIdnChar(c) == IsLetter(c) \/ IsDigit(c) \/ c = 95

RECURSIVE IdnEnd(_, _)
\* the loop of lines 121-127: the index of the first character at or after
\* k that does not continue the identifier
IdnEnd(cs, k) ==
    IF k < Len(cs) /\ IsIdnChar(cs[k + 1]) THEN IdnEnd(cs, k + 1) ELSE k

RECURSIVE IntEnd(_, _)
\* the loop of lines 139-152: where it stops, and whether on a letter
IntEnd(cs, k) ==
    IF k >= Len(cs) THEN [k |-> k, letter |-> FALSE]
    ELSE IF IsDigit(cs[k + 1]) THEN IntEnd(cs, k + 1)
    ELSE [k |-> k, letter |-> IsLetter(cs[k + 1])]

\* the escapes of lines 187-191
Escaped(c) ==
    CASE c = 110 -> 10
      [] c = 116 -> 9
      [] OTHER -> c

\* a step back of two characters
StepBack_two(i) == i - 2

\* lines 131 and 168: `i -= 1` after an identifier or an integer
StepBack(i) == i - 1

EofString == "EOF while scanning for the string literal"
EofEscape == "EOF while scanning for the escape sequence"
EofComment == "EOF while scanning for the comment literal"

RECURSIVE StrScan(_, _, _, _)
\* the loop of lines 184-215, entered with k < Len(cs): the index of the
\* closing quote and the collected characters, or the error returned
StrScan(cs, j, k, temp) ==
    IF cs[k + 1] = 34 THEN [r |-> "done", k |-> k, temp |-> temp]
    ELSE IF cs[k + 1] = 92
    THEN IF k + 1 >= Len(cs) THEN [r |-> "Err", error |-> SyntaxError(k, k, EofEscape)]
         ELSE IF k + 2 >= Len(cs)
         THEN [r |-> "Err", error |-> SyntaxError(j, j, EofString)]
         ELSE StrScan(cs, j, k + 2, Append(temp, Escaped(cs[k + 2])))
    ELSE IF k + 1 >= Len(cs) THEN [r |-> "Err", error |-> SyntaxError(j, j, EofString)]
    ELSE StrScan(cs, j, k + 1, Append(temp, cs[k + 1]))

RECURSIVE CommentEnd(_, _)
\* the loop of lines 233-242, entered with k < Len(cs): the index of the
\* closing bracket, or -1 when the input ends first
CommentEnd(cs, k) ==
    IF cs[k + 1] = 93 THEN k
    ELSE IF k + 1 >= Len(cs) THEN -1
    ELSE CommentEnd(cs, k + 1)

(***************************************************************************)
(* parser.rs: ParseError, ParseErrorInfo, parse_dot_op, parse_func_call    *)
(***************************************************************************)
LabelAlreadySet(label, line) ==
    [error |-> "LabelAlreadySet", label |-> label, line |-> line]
UnexpectedToken(token_info) ==
    [error |-> "UnexpectedToken", token_info |-> token_info]
NotEnoughArgument(token_info, expected, got) ==
    [error |-> "NotEnoughArgument", token_info |-> token_info,
     expected |-> expected, got |-> got]
UnknownFunctionName(token_info) ==
    [error |-> "UnknownFunctionName", token_info |-> token_info]

\* ParseError::error_code, lines 120-131
parse_error_code(error) ==
    CASE error.error = "LabelAlreadySet" -> 301
      [] error.error = "UnexpectedToken" -> 302
      [] error.error = "InvalidSyntax" -> 303
      [] error.error = "NotEnoughArgument" -> 304
      [] error.error = "UnknownFunctionName" -> 305

ParseErrorInfo(error, line, note) == [error |-> error, line |-> line, note |-> note]

\* Result<(usize, Expr), ParseErrorInfo>, and a panic of the thread
ParsedOk(i, expr) == [r |-> "Ok", i |-> i, expr |-> expr]
ParsedErr(info) == [r |-> "Err", info |-> info]
Panicked(why) == [r |-> "panic", why |-> why]

\* a parse_dot_op that counts the Dot alone
parse_dot_op_short(line) ==
    IF Len(line) >= 2 /\ line[1].token.token = "Dot" /\ line[2].token.token = "Int"
    THEN ParsedOk(0, ExprFunCall(Fun("Get", <<ExprValue(IntV(line[2].token.n))>>)))
    ELSE IF Len(line) < 2 THEN Panicked("index out of bounds")
    ELSE ParsedErr(ParseErrorInfo(UnexpectedToken(line[2]), line, NoNote))

\* parse_dot_op, lines 268-291.  line[1] of a one-token line is out of
\* bounds.
parse_dot_op(line) ==
    IF Len(line) >= 2 /\ line[1].token.token = "Dot" /\ line[2].token.token = "Int"
    THEN ParsedOk(1, ExprFunCall(Fun("Get", <<ExprValue(IntV(line[2].token.n))>>)))
    ELSE IF Len(line) < 2 THEN Panicked("index out of bounds")
    ELSE ParsedErr(ParseErrorInfo(UnexpectedToken(line[2]), line, NoNote))

\* a head table in which e names Equal
FunOfIdn_with_e(s) ==
    CASE s = <<115>> -> "Set"
      [] s = <<103>> -> "Get"
      [] s = <<119>> -> "Write"
      [] s = <<112>> -> "Print"
      [] s = <<97>> -> "Add"
      [] s = <<106>> -> "Jump"
      [] s = <<99>> -> "Convert"
      [] s = <<120>> -> "Extract"
      [] s = <<105>> -> "Input"
      [] s = <<107>> -> "KeyChar"
      [] s = <<110>> -> "Number"
      [] s = <<116>> -> "Text"
      [] s = <<102>> -> "FunJump"
      [] s = <<114>> -> "Return"
      [] s = <<101>> -> "Equal"
      [] OTHER -> "unknown"

\* the function names of parse_func_call, lines 304-318 and 421-434
FunOfIdn(s) ==
    CASE s = <<115>> -> "Set"
      [] s = <<103>> -> "Get"
      [] s = <<119>> -> "Write"
      [] s = <<112>> -> "Print"
      [] s = <<97>> -> "Add"
      [] s = <<106>> -> "Jump"
      [] s = <<99>> -> "Convert"
      [] s = <<120>> -> "Extract"
      [] s = <<105>> -> "Input"
      [] s = <<107>> -> "KeyChar"
      [] s = <<110>> -> "Number"
      [] s = <<116>> -> "Text"
      [] s = <<102>> -> "FunJump"
      [] s = <<114>> -> "Return"
      [] OTHER -> "unknown"

\* the Fun a head token stands for, lines 418-452
FunOfHead(token) ==
    CASE token.token = "Idn" -> FunOfIdn(token.s)
      [] token.token = "Que" -> "If"
      [] token.token = "Eql" -> "Equal"
      [] token.token = "Hsh" -> "CatchError"
      [] token.token = "Dol" -> "Exit"
      [] token.token = "Til" -> "EmptySlot"
      [] token.token = "Not" -> "ThrowError"
      [] OTHER -> "panic"

\* `count`, lines 303-338
Arity(f) ==
    CASE f \in {"Set", "Add", "Extract", "If", "Equal", "CatchError"} -> 2
      [] f \in {"Get", "Write", "Print", "Jump", "Convert", "Number", "Text",
                "FunJump", "Return", "ThrowError"} -> 1
      [] f \in {"Input", "KeyChar", "Exit", "EmptySlot"} -> 0

RECURSIVE parse_func_call(_)
RECURSIVE parse_args(_, _, _, _, _)

\* the loop `while c < count`, lines 369-415: the result of parse_func_call
\* when the loop returns early, else the final i, c and args
parse_args(line, count, i, c, args) ==
    IF c >= count THEN [r |-> "done", i |-> i, c |-> c, args |-> args]
    ELSE IF c + i >= Len(line)
    THEN ParsedErr(ParseErrorInfo(NotEnoughArgument(line[1], count, c), line, NoNote))
    ELSE LET token == line[c + i + 1].token
             rest == SubSeq(line, c + i + 1, Len(line))
         IN  CASE token.token = "Str" ->
                    parse_args(line, count, i, c + 1,
                               Append(args, ExprValue(StrV(token.s))))
               [] token.token = "Int" ->
                    parse_args(line, count, i, c + 1,
                               Append(args, ExprValue(IntV(token.n))))
               [] token.token \in {"Idn", "Eql", "Que", "Not", "Hsh"} ->
                    LET nested == parse_func_call(rest)
                    IN  IF nested.r # "Ok" THEN nested
                        ELSE parse_args(line, count, i + nested.i, c + 1,
                                        Append(args, nested.expr))
               [] token.token = "Til" ->
                    parse_args(line, count, i, c + 1,
                               Append(args, ExprFunCall(Fun("EmptySlot", <<>>))))
               [] token.token = "Dol" ->
                    parse_args(line, count, i, c + 1,
                               Append(args, ExprFunCall(Fun("Exit", <<>>))))
               [] token.token = "Dot" ->
                    LET nested == parse_dot_op(rest)
                    IN  IF nested.r # "Ok" THEN nested
                        ELSE parse_args(line, count, i + nested.i, c + 1,
                                        Append(args, nested.expr))
               [] OTHER ->
                    ParsedErr(ParseErrorInfo(UnexpectedToken(line[c + 1]), line, NoNote))

\* parse_func_call, lines 293-455
parse_func_call(line) ==
    LET f == FunOfHead(line[1].token)
    IN  IF f = "unknown"
        THEN ParsedErr(ParseErrorInfo(UnknownFunctionName(line[1]), line, NoNote))
        ELSE IF f = "panic" THEN Panicked("Got an unknown token")
        ELSE IF Arity(f) = 0 THEN ParsedOk(0, ExprFunCall(Fun(f, <<>>)))
        ELSE IF Len(line) < 2
        THEN ParsedErr(ParseErrorInfo(NotEnoughArgument(line[1], Arity(f), 0),
                                      line, NoNote))
        ELSE IF line[2].token.token # "Col"
        THEN ParsedErr(ParseErrorInfo(UnexpectedToken(line[2]), line, NoNote))
        ELSE LET a == parse_args(line, Arity(f), 2, 0, <<>>)
             IN  IF a.r # "done" THEN a
                 ELSE ParsedOk(a.i + a.c - 1, ExprFunCall(Fun(f, a.args)))

RECURSIVE SplitLines(_, _)
\* parse, lines 166-185: the tokens between Eol tokens, empty lines dropped;
\* cur is the line being collected
SplitLines(toks, cur) ==
    IF Len(toks) = 0 THEN (IF Len(cur) # 0 THEN <<cur>> ELSE <<>>)
    ELSE IF toks[1].token.token = "Eol"
    THEN (IF Len(cur) # 0 THEN <<cur>> ELSE <<>>)
             \o SplitLines(SubSeq(toks, 2, Len(toks)), <<>>)
    ELSE SplitLines(SubSeq(toks, 2, Len(toks)), Append(cur, toks[1]))

(***************************************************************************)
(* interpreter.rs: Error, ErrorInfo, InterpreterError, Signal              *)
(***************************************************************************)
TypeError(expected, got) == [error |-> "TypeError", expected |-> expected, got |-> got]
LabelError(s) == [error |-> "LabelError", s |-> s]
ValueError(v) == [error |-> "ValueError", v |-> v]
NoSlotError == [error |-> "NoSlotError"]
Error(msg) == [error |-> "Error", msg |-> msg]

\* error_code with the codes of TypeError and ValueError exchanged
error_code_swapped(error) ==
    CASE error.error = "TypeError" -> 403
      [] error.error = "LabelError" -> 402
      [] error.error = "ValueError" -> 401
      [] error.error = "NoSlotError" -> 404
      [] error.error = "Error" -> 400

\* Error::error_code followed by Code::as_isize
error_code(error) ==
    CASE error.error = "TypeError" -> 401
      [] error.error = "LabelError" -> 402
      [] error.error = "ValueError" -> 403
      [] error.error = "NoSlotError" -> 404
      [] error.error = "Error" -> 400

ErrorInfo(error, fun, note) == [error |-> error, fun |-> fun, note |-> note]

InterpreterError(error_info, instr_info) ==
    [error_info |-> error_info, instr_info |-> instr_info]

SignalError(error_info) == [s |-> "Error", error_info |-> error_info]
SignalInterpreterError(ie) == [s |-> "InterpreterError", interpreter_error |-> ie]
SignalJump(i) == [s |-> "Jump", i |-> i]
SignalReturn(v) == [s |-> "Return", v |-> v]

\* Result<Value, Signal>, and the register that holds no result while a
\* function body runs
Ok(v) == [r |-> "Ok", v |-> v]
Err(signal) == [r |-> "Err", signal |-> signal]
NoRet == [r |-> "none"]

(***************************************************************************)
(* interpret_fun_call: the arms that evaluate every argument and then      *)
(* compute a result from the values alone (and read-only tables).  Each    *)
(* operator is the part of its arm after the argument matches.             *)
(***************************************************************************)
Raise(error, clone, note) == Err(SignalError(ErrorInfo(error, clone, note)))

\* Get that treats a missing slot as an error
Get_result_strict(clone, value, slots_) ==
    IF value.t # "Int" THEN Raise(TypeError(IntV(0), value), clone, NoNote)
    ELSE IF value.n \in DOMAIN slots_ THEN Ok(slots_[value.n])
    ELSE Raise(NoSlotError, clone, NoNote)

\* Fun::Get, lines 204-221
Get_result(clone, value, slots_) ==
    IF value.t # "Int" THEN Raise(TypeError(IntV(0), value), clone, NoNote)
    ELSE IF value.n \in DOMAIN slots_ THEN Ok(slots_[value.n]) ELSE Ok(NoneV)

\* a Jump that goes to the first instruction when the label is unknown
Jump_result_to_start(clone, value, labels_) ==
    IF value.t # "Str" THEN Raise(TypeError(StrV(<<>>), value), clone, NoNote)
    ELSE IF value.s \in DOMAIN labels_ THEN Err(SignalJump(labels_[value.s]))
    ELSE Err(SignalJump(0))

\* Fun::Jump, lines 232-255
Jump_result(clone, value, labels_) ==
    IF value.t # "Str" THEN Raise(TypeError(StrV(<<>>), value), clone, NoNote)
    ELSE IF value.s \in DOMAIN labels_ THEN Err(SignalJump(labels_[value.s]))
    ELSE Raise(LabelError(value.s), clone, NoNote)

\* an Add that yields None for the pairs it cannot add
Add_result_total(clone, value1, value2) ==
    IF value1.t = "Int" /\ value2.t = "Int" THEN Ok(IntV(value1.n + value2.n))
    ELSE IF value1.t = "Str" /\ value2.t = "Str" THEN Ok(StrV(value1.s \o value2.s))
    ELSE Ok([t |-> "None"])

\* Fun::Add, lines 310-325
Add_result(clone, value1, value2) ==
    IF value1.t = "Int" /\ value2.t = "Int" THEN Ok(IntV(value1.n + value2.n))
    ELSE IF value1.t = "Str" /\ value2.t = "Str" THEN Ok(StrV(value1.s \o value2.s))
    ELSE Raise(Error(<<"You are trying to add ", value1, " and ", value2,
                       " which is invalid">>), clone, NoNote)

\* Fun::ThrowError, lines 402-412
ThrowError_result(clone, value) ==
    LET string == CASE value.t = "Str" -> value.s
                    [] value.t = "Int" -> to_string(value.n)
                    [] value.t = "None" -> <<>>
    IN  Raise(Error(string), clone,
              Note(<<"This is an error raise by function ", clone.f>>))

\* an Equal that compares every pair of values
Equal_result_structural(clone, value1, value2) ==
    IF value1 = value2 THEN Ok(IntV(1)) ELSE Ok(IntV(0))

\* Fun::Equal, lines 486-511
Equal_result(clone, value1, value2) ==
    IF value1.t = "Int" /\ value2.t = "Int"
    THEN (IF value1.n = value2.n THEN Ok(IntV(1)) ELSE Ok(IntV(0)))
    ELSE IF value1.t = "Str" /\ value2.t = "Str"
    THEN (IF value1.s = value2.s THEN Ok(IntV(1)) ELSE Ok(IntV(0)))
    ELSE Raise(Error(<<"You are trying to compare ", value1, " and ", value2,
                       " which is invalid">>), clone, NoNote)

\* an Extract that counts a negative index from the end
Extract_result_from_end(clone, value1, value2) ==
    IF value1.t = "Str" /\ value2.t = "Int"
    THEN LET at == IF value2.n < 0 THEN Len(value1.s) + value2.n ELSE value2.n
         IN  IF at >= 0 /\ at < Len(value1.s) THEN Ok(StrV(<<value1.s[at + 1]>>))
             ELSE Ok(StrV(<<>>))
    ELSE Raise(Error(<<"You are trying to extract from ", value1,
                       " using index value ", value2, " which is invalid">>),
               clone, NoNote)

\* Fun::Extract, lines 529-547: chars.get(int as usize); a negative int
\* casts to an index beyond every string
Extract_result(clone, value1, value2) ==
    IF value1.t = "Str" /\ value2.t = "Int"
    THEN (IF value2.n >= 0 /\ value2.n < Len(value1.s)
          THEN Ok(StrV(<<value1.s[value2.n + 1]>>))
          ELSE Ok(StrV(<<>>)))
    ELSE Raise(Error(<<"You are trying to extract from ", value1,
                       " using index value ", value2, " which is invalid">>),
               clone, NoNote)

\* Fun::Text, lines 558-570
Text_result(clone, value) ==
    IF value.t = "Int" THEN Ok(StrV(to_string(value.n)))
    ELSE Raise(TypeError(IntV(0), value), clone, NoNote)

\* Fun::Number, lines 581-603
Number_result(clone, value) ==
    IF value.t = "Str"
    THEN (IF parse_isize(value.s).ok THEN Ok(IntV(parse_isize(value.s).n))
          ELSE Raise(ValueError(value), clone,
                     Note(<<"Cannot convert ", value, " to an Int">>)))
    ELSE Raise(TypeError(IntV(0), value), clone, NoNote)

\* Fun::Convert, lines 614-650
Convert_result(clone, value) ==
    CASE value.t = "Str" ->
           IF str_len(value.s) # 1
           THEN Raise(ValueError(value), clone,
                      Note(<<"The Str should have exactly 1 char got ",
                             str_len(value.s)>>))
           ELSE Ok(IntV(value.s[1]))
      [] value.t = "Int" ->
           IF from_u32_ok(as_u32(value)) THEN Ok(StrV(<<as_u32(value)>>))
           ELSE Raise(ValueError(value), clone,
                      Note(<<"Cannot convert Int ", value, " to a char">>))
      [] value.t = "None" ->
           Raise(ValueError(value), clone, Note(<<"Cannot convert None value">>))

\* Fun::Return, line 661
Return_result(clone, value) == Err(SignalReturn(value))

\* Fun::KeyChar, line 681
KeyChar_result(clone) == Ok(NoneV)

\* an EmptySlot that yields the number of keys
EmptySlot_result_count(clone, slots_) == Ok(IntV(Cardinality(DOMAIN slots_)))

\* Fun::EmptySlot, lines 684-694: the first n of 0..isize::MAX that is no
\* key.  A table of |keys| entries leaves one of 0..|keys| free, so the
\* NoSlotError after the loop needs isize::MAX keys.
EmptySlot_result(clone, slots_) ==
    LET free == {n \in 0..Cardinality(DOMAIN slots_) : n \notin DOMAIN slots_}
    IN  IF free = {}
        THEN Raise(NoSlotError, clone,
                   Note(<<"At this point, you better use a known number">>))
        ELSE Ok(IntV(CHOOSE n \in free : \A m \in free : n <= m))

\* a rendering that shows a Str in quotes
Display_quoted(value) ==
    CASE value.t = "Str" -> <<34>> \o value.s \o <<34>>
      [] value.t = "Int" -> to_string(value.n)
      [] value.t = "None" -> <<78, 111, 110, 101>>

\* the text Print and Write hand to stdout, lines 423-427 and 438-442
Display(value) ==
    CASE value.t = "Str" -> value.s
      [] value.t = "Int" -> to_string(value.n)
      [] value.t = "None" -> <<78, 111, 110, 101>>

\* a truth test that takes everything but Int(0) as true
condit_nonzero(value1) == value1 # IntV(0)

\* Fun::If, lines 453-457
condit(value1) ==
    CASE value1.t = "Str" -> value1.s # <<>>
      [] value1.t = "Int" -> value1.n # 0
      [] value1.t = "None" -> FALSE

\* an insert that stores the successor of the value
insert_successor(slots_, k, v) ==
    [x \in DOMAIN slots_ \cup {k} |-> IF x = k THEN v + 1 ELSE slots_[x]]

\* an insert that keeps the value of a key already present
insert_if_absent(slots_, k, v) ==
    [x \in DOMAIN slots_ \cup {k} |-> IF x \in DOMAIN slots_ THEN slots_[x] ELSE v]

\* HashMap::insert on the slot table, lines 193, 368 and 376
insert(slots_, k, v) ==
    [x \in DOMAIN slots_ \cup {k} |-> IF x = k THEN v ELSE slots_[x]]

(***************************************************************************)
(* The programs interpret is run on.  A program is what parse returns: the *)
(* instruction list and the label table that maps each label to the index  *)
(* of its LabelPlaceHolder.                                                *)
(***************************************************************************)
h == <<104>>
g == <<103>>
loop == <<108, 111, 111, 112>>
end_ == <<101, 110, 100>>

Lit(v) == ExprValue(v)
Call1(f, a) == ExprFunCall(Fun(f, <<a>>))
Call2(f, a, b) == ExprFunCall(Fun(f, <<a, b>>))
Call0(f) == ExprFunCall(Fun(f, <<>>))
Stmt(expr) == InstrFunCall(expr.fun)

\* the statements the generated programs are made of
Pool ==
    { LabelPlaceHolder(h),                                         \* ; h
      LabelPlaceHolder(g),                                         \* ; g
      Stmt(Call2("CatchError", Lit(StrV(h)),
                 Call1("FunJump", Lit(StrV(h))))),                 \* #:"h" f:"h"
      Stmt(Call2("CatchError", Lit(StrV(g)),
                 Call1("Jump", Lit(StrV(h))))),                    \* #:"g" j:"h"
      Stmt(Call2("CatchError", Lit(StrV(h)),
                 Call2("If", Call1("Get", Lit(IntV(0))),
                       Call1("Return", Call1("Get", Lit(IntV(0))))))),
                                                                   \* #:"h" ?:.0 r:.0
      Stmt(Call1("ThrowError", Lit(IntV(42)))),                    \* !:42
      Stmt(Call1("Return", Call1("Get", Lit(IntV(-1))))),          \* r:.-1
      Stmt(Call1("Jump", Lit(StrV(h)))),                           \* j:"h"
      Stmt(Call1("FunJump", Lit(StrV(h)))),                        \* f:"h"
      Stmt(Call2("Set", Lit(IntV(-1)), Lit(StrV(h)))),             \* s:-1 "h"
      Stmt(Call2("Set", Lit(IntV(0)), Lit(IntV(1)))),              \* s:0 1
      Stmt(Call2("If", Call1("Get", Lit(IntV(0))),
                 Call1("Print", Call1("Get", Lit(IntV(-1))))))     \* ?:.0 p:.-1
    }

\* the scenarios of the documentation and one statement list per remaining
\* function
Scenarios ==
    { \* s:0 "hi" / p:g:0
      << Stmt(Call2("Set", Lit(IntV(0)), Lit(StrV(<<104, 105>>)))),
         Stmt(Call1("Print", Call1("Get", Lit(IntV(0))))) >>,
      \* s:1 5 / s:2 7 / p:a:.1 .2
      << Stmt(Call2("Set", Lit(IntV(1)), Lit(IntV(5)))),
         Stmt(Call2("Set", Lit(IntV(2)), Lit(IntV(7)))),
         Stmt(Call1("Print", Call2("Add", Call1("Get", Lit(IntV(1))),
                                   Call1("Get", Lit(IntV(2)))))) >>,
      \* ; loop / s:0 a:g:0 1 / ?:e:g:0 10 j:"end" / j:"loop" / ; end / p:"done"
      << LabelPlaceHolder(loop),
         Stmt(Call2("Set", Lit(IntV(0)),
                    Call2("Add", Call1("Get", Lit(IntV(0))), Lit(IntV(1))))),
         Stmt(Call2("If", Call2("Equal", Call1("Get", Lit(IntV(0))), Lit(IntV(10))),
                    Call1("Jump", Lit(StrV(end_))))),
         Stmt(Call1("Jump", Lit(StrV(loop)))),
         LabelPlaceHolder(end_),
         Stmt(Call1("Print", Lit(StrV(<<100, 111, 110, 101>>)))) >>,
      \* s:0 0 / ; loop / s:0 a:g:0 1 / ?:e:g:0 10 j:"end" / j:"loop" / ; end /
      \* p:"done"
      << Stmt(Call2("Set", Lit(IntV(0)), Lit(IntV(0)))),
         LabelPlaceHolder(loop),
         Stmt(Call2("Set", Lit(IntV(0)),
                    Call2("Add", Call1("Get", Lit(IntV(0))), Lit(IntV(1))))),
         Stmt(Call2("If", Call2("Equal", Call1("Get", Lit(IntV(0))), Lit(IntV(10))),
                    Call1("Jump", Lit(StrV(end_))))),
         Stmt(Call1("Jump", Lit(StrV(loop)))),
         LabelPlaceHolder(end_),
         Stmt(Call1("Print", Lit(StrV(<<100, 111, 110, 101>>)))) >>,
      \* a:"x" 1
      << Stmt(Call2("Add", Lit(StrV(<<120>>)), Lit(IntV(1)))) >>,
      \* #:"h" n:"abc" / ; h / p:g:-1
      << Stmt(Call2("CatchError", Lit(StrV(h)),
                    Call1("Number", Lit(StrV(<<97, 98, 99>>))))),
         LabelPlaceHolder(h),
         Stmt(Call1("Print", Call1("Get", Lit(IntV(-1))))) >>,
      \* !:42 / p:"unreached"
      << Stmt(Call1("ThrowError", Lit(IntV(42)))),
         Stmt(Call1("Print", Lit(StrV(<<117, 110, 114, 101, 97, 99, 104, 101, 100>>)))) >>,
      \* w:t:c:x:i 0 / #:"h" 5 / #:"h" g:"h" / ; h / s:~ k / $
      << Stmt(Call1("Write", Call1("Text", Call1("Convert",
                    Call2("Extract", Call0("Input"), Lit(IntV(0))))))),
         Stmt(Call2("CatchError", Lit(StrV(h)), Lit(IntV(5)))),
         Stmt(Call2("CatchError", Lit(StrV(h)), Call1("Get", Lit(StrV(h))))),
         LabelPlaceHolder(h),
         Stmt(Call2("Set", Call0("EmptySlot"), Call0("KeyChar"))),
         Stmt(Call0("Exit")) >>,
      \* f:"g" / p:.0 / ; g / j:"h" / s:0 1 / ; h / r:7
      << Stmt(Call1("FunJump", Lit(StrV(g)))),
         Stmt(Call1("Print", Call1("Get", Lit(IntV(0))))),
         LabelPlaceHolder(g),
         Stmt(Call1("Jump", Lit(StrV(h)))),
         Stmt(Call2("Set", Lit(IntV(0)), Lit(IntV(1)))),
         LabelPlaceHolder(h),
         Stmt(Call1("Return", Lit(IntV(7)))) >>
    }

\* the arguments the one-statement programs below hand to the functions
\* that compute on values; None is what KeyChar yields
NoneArg == Call0("KeyChar")

ConvertArgs ==
    { Lit(StrV(<<>>)), Lit(StrV(<<65>>)), Lit(StrV(<<233>>)), Lit(StrV(<<8364>>)),
      Lit(StrV(<<65536>>)), Lit(StrV(<<97, 98>>)), Lit(StrV(<<233, 233>>)),
      Lit(IntV(-1)), Lit(IntV(0)), Lit(IntV(65)), Lit(IntV(55295)),
      Lit(IntV(55296)), Lit(IntV(57343)), Lit(IntV(57344)), Lit(IntV(1114111)),
      Lit(IntV(1114112)), Lit(IntV(-2147483647)), Lit(IntV(2147483647)),
      Lit(IntWide(1, 65)), Lit(IntWide(-1, 65)), Lit(IntWide(1, 1114112)),
      Lit(IntWide(2, 0)), Lit(IntWide(1, 55296)),
      NoneArg }

\* the texts Number is applied to: -, +, 0, 1, 9, a and space
NumberChars == {45, 43, 48, 49, 57, 97, 32}
NumberTexts ==
    UNION {[1..k -> NumberChars] : k \in 0..3}
        \cup { <<50, 49, 52, 55, 52, 56, 51, 54, 52, 55>>,
               <<45, 50, 49, 52, 55, 52, 56, 51, 54, 52, 55>>,
               <<57, 50, 50, 51, 51, 55, 50, 48, 51, 54, 56, 53, 52, 55, 55, 53,
                 56, 48, 56>>,
               <<45, 57, 50, 50, 51, 51, 55, 50, 48, 51, 54, 56, 53, 52, 55, 55,
                 53, 56, 48, 57>> }

TextInts == (-12..12) \cup {-100, 100, -1000, 999, -2147483647, 2147483647}

PairArgs ==
    { Lit(IntV(0)), Lit(IntV(-1)), Lit(IntV(2)), Lit(StrV(<<>>)), Lit(StrV(h)),
      Lit(StrV(<<233, 104>>)), NoneArg }

ExtractTexts == { <<>>, h, <<233, 104>>, <<104, 65536, 103>> }
ExtractInts == (-2..4) \cup {-2147483647, 2147483647}

\* slot and value expressions of Set: literals and calls, of the accepted
\* type and of others, values and every signal
SetSlots == {Lit(IntV(0)), Lit(StrV(h)), NoneArg, Call1("Number", Lit(StrV(<<49>>)))}

SetValues ==
    { Lit(IntV(1)),
      Call1("Print", Lit(StrV(g))),
      Call1("ThrowError", Lit(IntV(42))),
      Call1("Return", Lit(IntV(1))),
      Call1("Jump", Lit(StrV(h))) }

\* one statement per function and argument list, and the slot tables
\* EmptySlot is asked about
ValuePrograms ==
    {<<Stmt(Call1("Convert", a))>> : a \in ConvertArgs}
        \cup {<<Stmt(Call1("Text", Call1("Number", Lit(StrV(s)))))>> : s \in NumberTexts}
        \cup {<<Stmt(Call1("Number", Call1("Text", Lit(IntV(j)))))>> : j \in TextInts}
        \cup {<<Stmt(Call2(f, a, b))>> :
                 f \in {"Add", "Equal"}, a \in PairArgs, b \in PairArgs}
        \cup {<<Stmt(Call2("Extract", Lit(StrV(s)), Lit(IntV(j))))>> :
                 s \in ExtractTexts, j \in ExtractInts}
        \cup {<<Stmt(Call2("Extract", a, b))>> : a \in PairArgs, b \in PairArgs}
        \cup {<<Stmt(Call1(f, a))>> : f \in {"Print", "Write"}, a \in PairArgs}
        \cup {<<Stmt(Call2("Set", a, b)), LabelPlaceHolder(h)>> :
                 a \in SetSlots, b \in SetValues}
        \cup {<<Stmt(Call1(f, a)), LabelPlaceHolder(h)>> :
                 f \in {"Get", "Jump", "FunJump", "Text", "Number"}, a \in PairArgs}
        \cup {<<Stmt(Call2("CatchError", a, Lit(IntV(5)))), LabelPlaceHolder(h)>> :
                 a \in PairArgs}
        \cup { \* #:"g" p:"h" / ; h
               << Stmt(Call2("CatchError", Lit(StrV(g)), Call1("Print", Lit(StrV(h))))),
                  LabelPlaceHolder(h) >>,
               \* ; h / s:0 1 / #:"g" j:"g" / ; g
               << LabelPlaceHolder(h),
                  Stmt(Call2("Set", Lit(IntV(0)), Lit(IntV(1)))),
                  Stmt(Call2("CatchError", Lit(StrV(g)), Call1("Jump", Lit(StrV(g))))),
                  LabelPlaceHolder(g) >>,
               \* f:"h" / p:.0 / ; h / s:0 1
               << Stmt(Call1("FunJump", Lit(StrV(h)))),
                  Stmt(Call1("Print", Call1("Get", Lit(IntV(0))))),
                  LabelPlaceHolder(h),
                  Stmt(Call2("Set", Lit(IntV(0)), Lit(IntV(1)))) >>,
               \* a:p:"h" w:12
               << Stmt(Call2("Add", Call1("Print", Lit(StrV(h))),
                             Call1("Write", Lit(IntV(12))))) >>,
               \* =:p:"h" !:"g"
               << Stmt(Call2("Equal", Call1("Print", Lit(StrV(h))),
                             Call1("ThrowError", Lit(StrV(g))))) >>,
               \* s:-1 "h" / s:0 1 / s:2 1 / p:=:~ ~
               << Stmt(Call2("Set", Lit(IntV(-1)), Lit(StrV(h)))),
                  Stmt(Call2("Set", Lit(IntV(0)), Lit(IntV(1)))),
                  Stmt(Call2("Set", Lit(IntV(2)), Lit(IntV(1)))),
                  Stmt(Call1("Print", Call2("Equal", Call0("EmptySlot"),
                                            Call0("EmptySlot")))) >>,
               \* s:1 1 / p:~ / s:~ 1 / s:~ 1 / p:~
               << Stmt(Call2("Set", Lit(IntV(1)), Lit(IntV(1)))),
                  Stmt(Call1("Print", Call0("EmptySlot"))),
                  Stmt(Call2("Set", Call0("EmptySlot"), Lit(IntV(1)))),
                  Stmt(Call2("Set", Call0("EmptySlot"), Lit(IntV(1)))),
                  Stmt(Call1("Print", Call0("EmptySlot"))) >> }

IsLabel(instr) == instr.instr = "LabelPlaceHolder"

\* parse never returns two LabelPlaceHolders of one name (parser.rs 199-211)
LabelsUnique(instrs) ==
    \A j, k \in 1..Len(instrs) :
        (IsLabel(instrs[j]) /\ IsLabel(instrs[k]) /\ instrs[j].name = instrs[k].name)
            => j = k

Generated ==
    {p \in UNION {[1..n -> Pool] : n \in 0..MaxInstrs} : LabelsUnique(p)}

Programs == Generated \cup Scenarios \cup ValuePrograms

\* labels.insert(idn, n), parser.rs 214: a label maps to the index of its line
LabelsOf(instrs) ==
    [name \in {instrs[j].name : j \in {k \in 1..Len(instrs) : IsLabel(instrs[k])}} |->
        (CHOOSE j \in 1..Len(instrs) : instrs[j] = LabelPlaceHolder(name)) - 1]

\* InstrInfo::new(instr, start, end), parser.rs 215-219 and 245-249: line j
\* (counted from 0) is taken to hold the two characters [2j, 2j + 2)
InstrInfosOf(instrs) ==
    [j \in 1..Len(instrs) |-> InstrInfo(instrs[j], 2 * (j - 1), 2 * (j - 1) + 2)]

\* what the stdin callback may return: Err(()) or Ok(text)
StdinResults ==
    { [ok |-> FALSE],
      [ok |-> TRUE, s |-> <<32, 104, 10>>],
      [ok |-> TRUE, s |-> <<>>] }

\* what the stdout callback may return
StdoutResults == {"Ok", "Err"}

(***************************************************************************)
(* The state of one interpret call.                                        *)
(***************************************************************************)
VARIABLES
    labels,       \* LabelType: label name -> instruction index
    instr_infos,  \* Vec<InstrInfo>
    slots,        \* SlotType: the slot table
    stack,        \* the active calls of interpret, interpret_instrs and
                  \* interpret_fun_call, innermost last
    ret,          \* the Result the innermost call has just been handed by
                  \* the call it made, or NoRet while it runs its own code
    out,          \* the texts the stdout callback has received, in order
    result,       \* what interpret returned, or how the process ended
    last,         \* the branch the last step took
    token_infos,        \* parse: its argument
    token_infos_lines,  \* parse: the non-empty lines of token_infos
    n,                  \* parse: the index of the line the for loop is at
    parsed_labels,      \* parse: its local `labels`
    instrs,             \* parse: its local `instrs`
    parsed,             \* parse: where the call is, or what it returned
    chars,              \* tokenize: its argument, the characters of the source
    char_i,             \* tokenize: its local `i`
    tokens,             \* tokenize: its local `tokens`
    tokenized           \* tokenize: where the call is, or what it returned

ivars == <<labels, instr_infos, slots, stack, ret, out, result, last>>
pvars == <<token_infos, token_infos_lines, n, parsed_labels, instrs, parsed>>
tvars == <<chars, char_i, tokens, tokenized>>
vars == <<ivars, pvars, tvars>>

\* no tokenize call is under way
TokenizeIdle ==
    /\ chars = <<>>
    /\ char_i = 0
    /\ tokens = <<>>
    /\ tokenized = [r |-> "idle"]

\* no parse call is under way
ParseIdle ==
    /\ token_infos = <<>>
    /\ token_infos_lines = <<>>
    /\ n = 0
    /\ parsed_labels = <<>>
    /\ instrs = <<>>
    /\ parsed = [r |-> "idle"]

FrameInterpret == [k |-> "interpret"]
FrameInstrs(i) == [k |-> "interpret_instrs", i |-> i]
FrameFunCall(fun, vals) == [k |-> "interpret_fun_call", fun |-> fun, vals |-> vals]

Running == [r |-> "running"]

\* interpret, lines 87-89: an empty slot table, the loop entered at 0
Init ==
    /\ \E p \in Programs :
        /\ labels = LabelsOf(p)
        /\ instr_infos = InstrInfosOf(p)
    /\ slots = <<>>
    /\ stack = <<FrameInterpret, FrameInstrs(0)>>
    /\ ret = NoRet
    /\ out = <<>>
    /\ result = Running
    /\ last = "interpret"
    /\ ParseIdle
    /\ TokenizeIdle

Top == stack[Len(stack)]
Pop == SubSeq(stack, 1, Len(stack) - 1)
SetTop(frame) == Pop \o <<frame>>

InLoop == Len(stack) > 0 /\ Top.k = "interpret_instrs"
InArm(f) == Len(stack) > 0 /\ Top.k = "interpret_fun_call" /\ Top.fun.f = f

\* the argument values the arm holds once the call it made has returned Ok
Resume == IF ret.r = "Ok" THEN Append(Top.vals, ret.v) ELSE Top.vals

RECURSIVE Fill(_, _)
\* `match expr { Expr::Value(v) => v, ... }`: the literal arguments that
\* follow the values held are taken as they are
Fill(args, vals) ==
    IF Len(vals) < Len(args) /\ args[Len(vals) + 1].e = "Value"
    THEN Fill(args, Append(vals, args[Len(vals) + 1].v))
    ELSE vals

\* `return` from interpret_fun_call, and the `?` that passes a signal on
Yield(r, tag) ==
    /\ stack' = Pop
    /\ ret' = r
    /\ last' = tag

\* Expr::FunCall(_fun) => interpret_fun_call(_fun, ...): the next argument
\* is a call
CallArg(vals, tag) ==
    /\ stack' = SetTop([Top EXCEPT !.vals = vals])
                  \o <<FrameFunCall(Top.fun.args[Len(vals) + 1].fun, <<>>)>>
    /\ ret' = NoRet
    /\ last' = tag

(***************************************************************************)
(* interpret_instrs: the loop.                                             *)
(***************************************************************************)
\* a Jump that resumes at the target itself
JumpCursor_at_target(int) == int

\* lines 140-147: `i = int` and then the `i += 1` that ends the iteration
JumpCursor(int) == int + 1

\* a loop that passes the Return signal on to its caller
ReturnResult_leak(value) == Err(SignalReturn(value))

\* line 138: a Return signal ends this loop with its value
ReturnResult(value) == Ok(value)

\* a loop whose end is reported to its caller as a Return of Int(0)
EndResult_zero == Ok(IntV(0))

\* line 150: a loop whose cursor has left the list ends with None
EndResult == Ok(NoneV)

\* a loop that returns the bare Signal::Error
Wrap_bare(error_info, i) == SignalError(error_info)

\* a loop that gives every error the InstrInfo of the first statement
Wrap_first(error_info, i) ==
    SignalInterpreterError(InterpreterError(error_info, instr_infos[1]))

\* lines 131-136: the error takes the InstrInfo of the statement at i
Wrap(error_info, i) ==
    SignalInterpreterError(InterpreterError(error_info, instr_infos[i + 1]))

\* a loop that ends normally on an InterpreterError from below
PassInterpreterError_swallow(interpreter_error) == Ok(NoneV)

\* lines 127-129: an InterpreterError from a nested loop is returned as it is
PassInterpreterError(interpreter_error) ==
    Err(SignalInterpreterError(interpreter_error))

\* lines 117-121 and 147: a SetLabel or LabelPlaceHolder does nothing
interpret_instrs_label ==
    /\ InLoop /\ ret = NoRet
    /\ Top.i < Len(instr_infos)
    /\ instr_infos[Top.i + 1].instr.instr # "FunCall"
    /\ stack' = SetTop(FrameInstrs(Top.i + 1))
    /\ last' = "LabelPlaceHolder"
    /\ UNCHANGED <<tvars, pvars, labels, instr_infos, slots, ret, out, result>>

\* lines 117-124: a FunCall statement is handed to interpret_fun_call
interpret_instrs_fun_call ==
    /\ InLoop /\ ret = NoRet
    /\ Top.i < Len(instr_infos)
    /\ instr_infos[Top.i + 1].instr.instr = "FunCall"
    /\ stack' = Append(stack, FrameFunCall(instr_infos[Top.i + 1].instr.fun, <<>>))
    /\ last' = "FunCall"
    /\ UNCHANGED <<tvars, pvars, labels, instr_infos, slots, ret, out, result>>

\* lines 125-147: what the loop does with the statement's result
interpret_instrs_result ==
    /\ InLoop /\ ret # NoRet
    /\ IF ret.r = "Ok"
       THEN /\ stack' = SetTop(FrameInstrs(Top.i + 1))
            /\ ret' = NoRet
            /\ last' = "loop:Ok"
       ELSE CASE ret.signal.s = "InterpreterError" ->
                   /\ stack' = Pop
                   /\ ret' = PassInterpreterError(ret.signal.interpreter_error)
                   /\ last' = "loop:InterpreterError"
              [] ret.signal.s = "Error" ->
                   /\ stack' = Pop
                   /\ ret' = Err(Wrap(ret.signal.error_info, Top.i))
                   /\ last' = "loop:Error"
              [] ret.signal.s = "Return" ->
                   /\ stack' = Pop
                   /\ ret' = ReturnResult(ret.signal.v)
                   /\ last' = "loop:Return"
              [] ret.signal.s = "Jump" ->
                   /\ stack' = SetTop(FrameInstrs(JumpCursor(ret.signal.i)))
                   /\ ret' = NoRet
                   /\ last' = "loop:Jump"
    /\ UNCHANGED <<tvars, pvars, labels, instr_infos, slots, out, result>>

\* lines 117 and 150: the cursor has left the list
interpret_instrs_end ==
    /\ InLoop /\ ret = NoRet
    /\ Top.i >= Len(instr_infos)
    /\ stack' = Pop
    /\ ret' = EndResult
    /\ last' = "loop:end"
    /\ UNCHANGED <<tvars, pvars, labels, instr_infos, slots, out, result>>

\* interpret, lines 89-100
interpret ==
    /\ Len(stack) > 0 /\ Top.k = "interpret" /\ ret # NoRet
    /\ result' = IF ret.r = "Ok" THEN [r |-> "Ok"]
                 ELSE IF ret.signal.s = "InterpreterError"
                 THEN [r |-> "Err", interpreter_error |-> ret.signal.interpreter_error]
                 ELSE [r |-> "panic", signal |-> ret.signal]
    /\ stack' = <<>>
    /\ ret' = NoRet
    /\ last' = "interpret:return"
    /\ UNCHANGED <<tvars, pvars, labels, instr_infos, slots, out>>

(***************************************************************************)
(* interpret_fun_call: one action per arm of `match *fun`.  A step runs    *)
(* the arm from where it stands to its next nested call or to its return.  *)
(***************************************************************************)
\* the arms of the section above, applied to the evaluated arguments
Apply(fun, vals) ==
    CASE fun.f = "Get" -> Get_result(fun, vals[1], slots)
      [] fun.f = "Jump" -> Jump_result(fun, vals[1], labels)
      [] fun.f = "Add" -> Add_result(fun, vals[1], vals[2])
      [] fun.f = "ThrowError" -> ThrowError_result(fun, vals[1])
      [] fun.f = "Equal" -> Equal_result(fun, vals[1], vals[2])
      [] fun.f = "Extract" -> Extract_result(fun, vals[1], vals[2])
      [] fun.f = "Text" -> Text_result(fun, vals[1])
      [] fun.f = "Number" -> Number_result(fun, vals[1])
      [] fun.f = "Convert" -> Convert_result(fun, vals[1])
      [] fun.f = "Return" -> Return_result(fun, vals[1])
      [] fun.f = "KeyChar" -> KeyChar_result(fun)
      [] fun.f = "EmptySlot" -> EmptySlot_result(fun, slots)

\* an arm that evaluates its arguments in order, each `?` passing a signal
\* on, and then returns Apply
ArmStep ==
    /\ LET vals == Fill(Top.fun.args, Resume)
       IN  IF ret.r = "Err" THEN Yield(ret, "?")
           ELSE IF Len(vals) < Len(Top.fun.args) THEN CallArg(vals, "arg")
           ELSE Yield(Apply(Top.fun, vals), Top.fun.f)
    /\ UNCHANGED <<tvars, pvars, labels, instr_infos, slots, out, result>>

\* Fun::Get, lines 196-222
Fun_Get == InArm("Get") /\ ArmStep

\* Fun::Jump, lines 224-256
Fun_Jump == InArm("Jump") /\ ArmStep

\* Fun::Add, lines 295-326
Fun_Add == InArm("Add") /\ ArmStep

\* Fun::ThrowError, lines 394-413
Fun_ThrowError == InArm("ThrowError") /\ ArmStep

\* Fun::Equal, lines 471-512
Fun_Equal == InArm("Equal") /\ ArmStep

\* Fun::Extract, lines 514-548
Fun_Extract == InArm("Extract") /\ ArmStep

\* Fun::Text, lines 550-571
Fun_Text == InArm("Text") /\ ArmStep

\* Fun::Number, lines 573-604
Fun_Number == InArm("Number") /\ ArmStep

\* Fun::Convert, lines 606-651
Fun_Convert == InArm("Convert") /\ ArmStep

\* Fun::Return, lines 653-662
Fun_Return == InArm("Return") /\ ArmStep

\* Fun::KeyChar, lines 681
Fun_KeyChar == InArm("KeyChar") /\ ArmStep

\* Fun::EmptySlot, lines 683-695
Fun_EmptySlot == InArm("EmptySlot") /\ ArmStep

\* a Set that looks at its slot only when it holds both values
Set_slot_refused_late(vals) == Len(vals) = 2 /\ vals[1].t # "Int"

\* lines 172-184: the slot value is matched as soon as it is there
Set_slot_refused(vals) == vals[1].t # "Int"

\* Fun::Set, lines 164-194 and 702
Fun_Set ==
    /\ InArm("Set")
    /\ LET vals == Fill(Top.fun.args, Resume)
       IN  IF ret.r = "Err" THEN Yield(ret, "?") /\ slots' = slots
           ELSE IF Len(vals) = 0 THEN CallArg(vals, "arg") /\ slots' = slots
           ELSE IF Set_slot_refused(vals)
           THEN /\ Yield(Raise(TypeError(IntV(0), vals[1]), Top.fun, NoNote),
                         "Set:TypeError")
                /\ slots' = slots
           ELSE IF Len(vals) < 2 THEN CallArg(vals, "arg") /\ slots' = slots
           ELSE /\ slots' = insert(slots, vals[1].n, vals[2])
                /\ Yield(Ok(NoneV), "Set")
    /\ UNCHANGED <<tvars, pvars, labels, instr_infos, out, result>>

\* Fun::FunJump, lines 258-293
Fun_FunJump ==
    /\ InArm("FunJump")
    /\ IF ret.r = "Err" THEN Yield(ret, "?")
       ELSE IF Len(Top.vals) = 1
       THEN Yield(Ok(ret.v), "FunJump:result")
       ELSE LET vals == Fill(Top.fun.args, Resume)
            IN  IF Len(vals) = 0 THEN CallArg(vals, "arg")
                ELSE IF vals[1].t # "Str"
                THEN Yield(Raise(TypeError(StrV(<<>>), vals[1]), Top.fun, NoNote),
                           "FunJump:TypeError")
                ELSE IF vals[1].s \in DOMAIN labels
                THEN /\ Len(stack) < MaxStack
                     /\ stack' = SetTop([Top EXCEPT !.vals = vals])
                                   \o <<FrameInstrs(labels[vals[1].s])>>
                     /\ ret' = NoRet
                     /\ last' = "FunJump:interpret_instrs"
                ELSE Yield(Raise(LabelError(vals[1].s), Top.fun, NoNote),
                           "FunJump:LabelError")
    /\ UNCHANGED <<tvars, pvars, labels, instr_infos, slots, out, result>>

\* a CatchError that turns a Return of its guarded expression into a value
PassSignal_swallow(signal) ==
    IF signal.s = "Return" THEN Ok(signal.v) ELSE Err(signal)

\* the signal CatchError lets through, line 385
PassSignal(signal) == Err(signal)

\* Fun::CatchError, lines 328-392
Fun_CatchError ==
    /\ InArm("CatchError")
    /\ IF ret.r = "Err" /\ Len(Top.vals) = 0
       THEN Yield(ret, "?") /\ slots' = slots
       ELSE IF ret.r = "Err"
       THEN LET i == labels[Top.vals[1].s]
                signal == ret.signal
            IN  CASE signal.s = "Error" ->
                       /\ slots' = insert(slots, -1,
                                          IntV(error_code(signal.error_info.error)))
                       /\ Yield(Err(SignalJump(i)), "CatchError:Error")
                  [] signal.s = "InterpreterError" ->
                       /\ slots' = insert(slots, -1,
                              IntV(error_code(signal.interpreter_error.error_info.error)))
                       /\ Yield(Err(SignalJump(i)), "CatchError:InterpreterError")
                  [] OTHER ->
                       /\ slots' = slots
                       /\ Yield(PassSignal(signal), "CatchError:signal")
       ELSE LET vals == Fill(Top.fun.args, Resume)
            IN  /\ slots' = slots
                /\ IF Len(vals) = 0 THEN CallArg(vals, "arg")
                   ELSE IF vals[1].t # "Str"
                   THEN Yield(Raise(TypeError(StrV(<<>>), vals[1]), Top.fun, NoNote),
                              "CatchError:TypeError")
                   ELSE IF vals[1].s \notin DOMAIN labels
                   THEN Yield(Raise(LabelError(vals[1].s), Top.fun, NoNote),
                              "CatchError:LabelError")
                   ELSE IF Len(vals) < 2 THEN CallArg(vals, "arg")
                   ELSE Yield(Ok(vals[2]), "CatchError:Ok")
    /\ UNCHANGED <<tvars, pvars, labels, instr_infos, out, result>>

\* Fun::Print, lines 415-428 and 702: the callback's result is dropped
Fun_Print ==
    /\ InArm("Print")
    /\ LET vals == Fill(Top.fun.args, Resume)
       IN  IF ret.r = "Err" THEN Yield(ret, "?") /\ out' = out
           ELSE IF Len(vals) = 0 THEN CallArg(vals, "arg") /\ out' = out
           ELSE /\ Len(out) < MaxOut
                /\ out' = Append(out, Display(vals[1]) \o <<10>>)
                /\ \E res \in StdoutResults :
                       Yield(Ok(NoneV), IF res = "Ok" THEN "Print" ELSE "Print:Err")
    /\ UNCHANGED <<tvars, pvars, labels, instr_infos, slots, result>>

\* Fun::Write, lines 430-443 and 702
Fun_Write ==
    /\ InArm("Write")
    /\ LET vals == Fill(Top.fun.args, Resume)
       IN  IF ret.r = "Err" THEN Yield(ret, "?") /\ out' = out
           ELSE IF Len(vals) = 0 THEN CallArg(vals, "arg") /\ out' = out
           ELSE /\ Len(out) < MaxOut
                /\ out' = Append(out, Display(vals[1]))
                /\ \E res \in StdoutResults :
                       Yield(Ok(NoneV), IF res = "Ok" THEN "Write" ELSE "Write:Err")
    /\ UNCHANGED <<tvars, pvars, labels, instr_infos, slots, result>>

\* Fun::If, lines 445-469 and 702
Fun_If ==
    /\ InArm("If")
    /\ LET vals == Fill(Top.fun.args, Resume)
       IN  IF ret.r = "Err" THEN Yield(ret, "?")
           ELSE IF Len(vals) = 0 THEN CallArg(vals, "arg")
           ELSE IF ~condit(vals[1]) THEN Yield(Ok(NoneV), "If:false")
           ELSE IF Len(vals) < 2 THEN CallArg(vals, "If:value")
           ELSE Yield(Ok(vals[2]), "If:true")
    /\ UNCHANGED <<tvars, pvars, labels, instr_infos, slots, out, result>>

\* Fun::Input, lines 664-679
Fun_Input ==
    /\ InArm("Input")
    /\ \E res \in StdinResults :
           IF res.ok THEN Yield(Ok(StrV(trim(res.s))), "Input")
           ELSE Yield(Raise(Error(<<"Failed to receive an input">>), Top.fun, NoNote),
                      "Input:Err")
    /\ UNCHANGED <<tvars, pvars, labels, instr_infos, slots, out, result>>

\* Fun::Exit, lines 697-699: the process ends
Fun_Exit ==
    /\ InArm("Exit")
    /\ result' = [r |-> "exit"]
    /\ stack' = <<>>
    /\ ret' = NoRet
    /\ last' = "Exit"
    /\ UNCHANGED <<tvars, pvars, labels, instr_infos, slots, out>>

Next ==
    \/ interpret_instrs_label
    \/ interpret_instrs_fun_call
    \/ interpret_instrs_result
    \/ interpret_instrs_end
    \/ interpret
    \/ Fun_Set
    \/ Fun_Get
    \/ Fun_Jump
    \/ Fun_FunJump
    \/ Fun_Add
    \/ Fun_CatchError
    \/ Fun_ThrowError
    \/ Fun_Print
    \/ Fun_Write
    \/ Fun_If
    \/ Fun_Equal
    \/ Fun_Extract
    \/ Fun_Text
    \/ Fun_Number
    \/ Fun_Convert
    \/ Fun_Return
    \/ Fun_Input
    \/ Fun_KeyChar
    \/ Fun_EmptySlot
    \/ Fun_Exit

Spec == Init /\ [][Next]_vars

(***************************************************************************)
(* parser.rs: parse.  One step splits the tokens into lines, then one step *)
(* per line of the for loop.                                               *)
(***************************************************************************)
Semi == Tok("Smi")
Colon == Tok("Col")
Dot == Tok("Dot")
Eol == Tok("Eol")
Bang == Tok("Not")

\* the tokens the generated token lists are made of:
\* ;  :  .  end-of-line  !  s  h  0  "h"
Alphabet ==
    { Semi, Colon, Dot, Eol, Bang, TokIdn(<<115>>), TokIdn(h), TokInt(0), TokStr(h) }

\* the token at position j (counted from 0) is taken to span [j, j + 1)
Spanned(toks) == [j \in 1..Len(toks) |-> TokenInfo(j - 1, j, toks[j])]

\* token lists longer than the generated ones
TokenScenarios ==
    { \* s:0 "h" / p:g:0
      << TokIdn(<<115>>), Colon, TokInt(0), TokStr(h), Eol,
         TokIdn(<<112>>), Colon, TokIdn(g), Colon, TokInt(0) >>,
      \* ; h / ?:=:.0 0 j:"h" / ; h
      << Semi, TokIdn(h), Eol,
         Tok("Que"), Colon, Tok("Eql"), Colon, Dot, TokInt(0), TokInt(0),
         TokIdn(<<106>>), Colon, TokStr(h), Eol,
         Semi, TokIdn(h) >>,
      \* #:"h" s:~ k / $ / p:.
      << Tok("Hsh"), Colon, TokStr(h), TokIdn(<<115>>), Colon, Tok("Til"),
         TokIdn(<<107>>), Eol,
         Tok("Dol"), Eol,
         TokIdn(<<112>>), Colon, Dot >>,
      \* $ / / ; h / p:.0
      << Tok("Dol"), Eol, Eol, Semi, TokIdn(h), Eol,
         TokIdn(<<112>>), Colon, Dot, TokInt(0) >>,
      \* p:1 2 / ; "" / s:0
      << TokIdn(<<112>>), Colon, TokInt(1), TokInt(2), Eol,
         Semi, TokStr(<<>>), Eol,
         TokIdn(<<115>>), Colon, TokInt(0) >>,
      \* ; "1h"
      << Semi, TokStr(<<49, 104>>) >>,
      \* ; "_h1" s / $
      << Semi, TokStr(<<95, 104, 49>>), TokIdn(<<115>>), Eol, Tok("Dol") >>,
      \* ; "h h"
      << Semi, TokStr(<<104, 32, 104>>) >>,
      \* p:a:.1 .2 / s:x:i ~ #:"h" $
      << TokIdn(<<112>>), Colon, TokIdn(<<97>>), Colon, Dot, TokInt(1), Dot, TokInt(2),
         Eol,
         TokIdn(<<115>>), Colon, TokIdn(<<120>>), Colon, TokIdn(<<105>>), Tok("Til"),
         Tok("Hsh"), Colon, TokStr(h), Tok("Dol") >>
    }

TokenLists == UNION {[1..k -> Alphabet] : k \in 0..MaxTokens} \cup TokenScenarios

\* parse has been called: lines 159-167
InitParse ==
    /\ \E toks \in TokenLists : token_infos = Spanned(toks)
    /\ token_infos_lines = <<>>
    /\ n = 0
    /\ parsed_labels = <<>>
    /\ instrs = <<>>
    /\ parsed = [r |-> "split"]
    /\ labels = <<>>
    /\ instr_infos = <<>>
    /\ slots = <<>>
    /\ stack = <<>>
    /\ ret = NoRet
    /\ out = <<>>
    /\ result = [r |-> "idle"]
    /\ last = "parse"
    /\ TokenizeIdle

\* lines 169-185
parse_lines ==
    /\ parsed.r = "split"
    /\ token_infos_lines' = SplitLines(token_infos, <<>>)
    /\ parsed' = [r |-> "for"]
    /\ UNCHANGED <<tvars, ivars, token_infos, n, parsed_labels, instrs>>

\* the line the for loop of line 187 is at
Line == token_infos_lines[n + 1]

AtLine == parsed.r = "for" /\ n < Len(token_infos_lines)

\* the InstrInfo of a line, lines 215-219 and 245-249
InstrOfLine(instr) == InstrInfo(instr, Line[1].start, Line[Len(Line)].end)

\* the note of lines 225-230; Smi is displayed as the character 59
MeantNote(token) ==
    IF token.token = "Str" /\ is_iden(token.s)
    THEN Note(<<"Maybe you meant ", <<59>> \o token.s>>)
    ELSE NoNote

\* a lookup that takes the line before the current one
line_at_previous(line_no) == token_infos_lines[n]

\* line_at of lines 201-202: the line a label was defined on
line_at(line_no) == token_infos_lines[line_no + 1]

\* the arm [Smi, ..], lines 197-238; token_line[1] of a one-token line is
\* out of bounds
parse_label_line ==
    /\ AtLine
    /\ Line[1].token.token = "Smi"
    /\ IF Len(Line) = 2 /\ Line[2].token.token = "Idn"
       THEN LET idn == Line[2].token.s
            IN  IF idn \in DOMAIN parsed_labels
                THEN /\ parsed' = ParsedErr(ParseErrorInfo(
                            LabelAlreadySet(idn, line_at(parsed_labels[idn])),
                            Line, NoNote))
                     /\ UNCHANGED <<n, parsed_labels, instrs>>
                ELSE /\ parsed_labels' = insert(parsed_labels, idn, n)
                     /\ instrs' = Append(instrs, InstrOfLine(LabelPlaceHolder(idn)))
                     /\ n' = n + 1
                     /\ UNCHANGED parsed
       ELSE /\ parsed' = IF Len(Line) < 2 THEN Panicked("index out of bounds")
                         ELSE ParsedErr(ParseErrorInfo(UnexpectedToken(Line[2]), Line,
                                                       MeantNote(Line[2].token)))
            /\ UNCHANGED <<n, parsed_labels, instrs>>
    /\ UNCHANGED <<tvars, ivars, token_infos, token_infos_lines>>

\* the heads of line 241
CallHeads == {"Idn", "Dol", "Que", "Eql", "Not", "Hsh"}

\* the arm of lines 241-253
parse_call_line ==
    /\ AtLine
    /\ Line[1].token.token \in CallHeads
    /\ LET call == parse_func_call(Line)
       IN  IF call.r = "Ok"
           THEN /\ instrs' = Append(instrs, InstrOfLine(InstrFunCall(call.expr.fun)))
                /\ n' = n + 1
                /\ UNCHANGED parsed
           ELSE /\ parsed' = call
                /\ UNCHANGED <<n, instrs>>
    /\ UNCHANGED <<tvars, ivars, token_infos, token_infos_lines, parsed_labels>>

\* the arm of lines 255-261
parse_other_line ==
    /\ AtLine
    /\ Line[1].token.token \notin CallHeads \cup {"Smi"}
    /\ parsed' = ParsedErr(ParseErrorInfo(UnexpectedToken(Line[1]), Line, NoNote))
    /\ UNCHANGED <<tvars, ivars, token_infos, token_infos_lines, n, parsed_labels, instrs>>

\* line 265
parse_ok ==
    /\ parsed.r = "for"
    /\ n = Len(token_infos_lines)
    /\ parsed' = [r |-> "Ok", labels |-> parsed_labels, instrs |-> instrs]
    /\ UNCHANGED <<tvars, ivars, token_infos, token_infos_lines, n, parsed_labels, instrs>>

NextParse ==
    \/ parse_lines
    \/ parse_label_line
    \/ parse_call_line
    \/ parse_other_line
    \/ parse_ok

SpecParse == InitParse /\ [][NextParse]_vars

(***************************************************************************)
(* tokenizer.rs: tokenize.  One step per iteration of the outer loop of    *)
(* lines 103-255: the arm of the character at i, then `i += 1`.            *)
(***************************************************************************)
\* the characters the generated source texts are made of:
\* s  :  0  -  "  \  [  ]  space  newline
CharAlphabet == {115, 58, 48, 45, 34, 92, 91, 93, 32, 10}

\* source texts longer than the generated ones, or with other characters
SourceScenarios ==
    { \* [ comment ] s:0 1
      <<91, 32, 99, 111, 109, 109, 101, 110, 116, 32, 93, 32, 115, 58,
         48, 32, 49>>,
      \* "abc\\n"
      <<34, 97, 98, 99, 92, 110, 34>>,
      \* "a\\"b" ~
      <<34, 97, 92, 34, 98, 34, 32, 126>>,
      \* "\\t\\\\"
      <<34, 92, 116, 92, 92, 34>>,
      \* "ab
      <<34, 97, 98>>,
      \* "a\\
      <<34, 97, 92>>,
      \* "a\\"
      <<34, 97, 92, 34>>,
      \* [ab
      <<91, 97, 98>>,
      \* 9223372036854775808
      <<57, 50, 50, 51, 51, 55, 50, 48, 51, 54, 56, 53, 52, 55, 55, 53,
         56, 48, 56>>,
      \* -9223372036854775809
      <<45, 57, 50, 50, 51, 51, 55, 50, 48, 51, 54, 56, 53, 52, 55, 55,
         53, 56, 48, 57>>,
      \* 007 -12a
      <<48, 48, 55, 32, 45, 49, 50, 97>>,
      \* 1-2 -
      <<49, 45, 50, 32, 45>>,
      \* s:0 @
      <<115, 58, 48, 32, 64>>,
      \* ~:. / $;?=!#
      <<126, 58, 46, 10, 36, 59, 63, 61, 33, 35>>,
      \* ab_1 _x / 
      <<97, 98, 95, 49, 32, 95, 120, 10>>
    }

\* the source texts the whole pipeline is run on
ProgramSources ==
    { \* s:0 "hi" / p:g:0
      <<115, 58, 48, 32, 34, 104, 105, 34, 10, 112, 58, 103, 58, 48>>,
      \* s:1 5 / s:2 7 / p:a:.1 .2
      <<115, 58, 49, 32, 53, 10, 115, 58, 50, 32, 55, 10, 112, 58, 97,
         58, 46, 49, 32, 46, 50>>,
      \* ; loop / s:0 a:g:0 1 / ?:e:g:0 10 j:"end" / j:"loop" / ; end / p:"done"
      <<59, 32, 108, 111, 111, 112, 10, 115, 58, 48, 32, 97, 58, 103,
         58, 48, 32, 49, 10, 63, 58, 101, 58, 103, 58, 48, 32, 49, 48,
         32, 106, 58, 34, 101, 110, 100, 34, 10, 106, 58, 34, 108, 111,
         111, 112, 34, 10, 59, 32, 101, 110, 100, 10, 112, 58, 34, 100,
         111, 110, 101, 34>>,
      \* s:0 0 / ; loop / s:0 a:g:0 1 / ?:=:g:0 10 j:"end" / j:"loop" / ; end / p:"done"
      <<115, 58, 48, 32, 48, 10, 59, 32, 108, 111, 111, 112, 10, 115,
         58, 48, 32, 97, 58, 103, 58, 48, 32, 49, 10, 63, 58, 61, 58,
         103, 58, 48, 32, 49, 48, 32, 106, 58, 34, 101, 110, 100, 34,
         10, 106, 58, 34, 108, 111, 111, 112, 34, 10, 59, 32, 101, 110,
         100, 10, 112, 58, 34, 100, 111, 110, 101, 34>>,
      \* a:"x" 1
      <<97, 58, 34, 120, 34, 32, 49>>,
      \* #:"h" n:"abc" / ; h / p:g:-1
      <<35, 58, 34, 104, 34, 32, 110, 58, 34, 97, 98, 99, 34, 10, 59,
         32, 104, 10, 112, 58, 103, 58, 45, 49>>,
      \* !:42 / p:"unreached"
      <<33, 58, 52, 50, 10, 112, 58, 34, 117, 110, 114, 101, 97, 99,
         104, 101, 100, 34>>,
      \* w:t:c:x:i 0 / #:"h" 5 / #:"h" g:"h" / ; h / s:~ k / $
      <<119, 58, 116, 58, 99, 58, 120, 58, 105, 32, 48, 10, 35, 58, 34,
         104, 34, 32, 53, 10, 35, 58, 34, 104, 34, 32, 103, 58, 34, 104,
         34, 10, 59, 32, 104, 10, 115, 58, 126, 32, 107, 10, 36>>,
      \* f:"g" / p:.0 / ; g / j:"h" / s:0 1 / ; h / r:7
      <<102, 58, 34, 103, 34, 10, 112, 58, 46, 48, 10, 59, 32, 103, 10,
         106, 58, 34, 104, 34, 10, 115, 58, 48, 32, 49, 10, 59, 32, 104,
         10, 114, 58, 55>>,
      \* ; h /  / ; h
      <<59, 32, 104, 10, 10, 59, 32, 104>>,
      \* s: / 
      <<115, 58, 10>>,
      \* p:1 2
      <<112, 58, 49, 32, 50>>,
      \* 0
      <<48>>,
      \* ; "h"
      <<59, 32, 34, 104, 34>>,
      \* s:0 ~ / !:k
      <<115, 58, 48, 32, 126, 10, 33, 58, 107>>,
      \* 1a
      <<49, 97>>,
      \* [ c ] p:1 / p:@
      <<91, 32, 99, 32, 93, 32, 112, 58, 49, 10, 112, 58, 64>>
    }

Sources ==
    UNION {[1..k -> CharAlphabet] : k \in 0..MaxChars}
        \cup SourceScenarios \cup ProgramSources

\* the other two stages are not running
StagesIdle ==
    /\ ParseIdle
    /\ labels = <<>>
    /\ instr_infos = <<>>
    /\ slots = <<>>
    /\ stack = <<>>
    /\ ret = NoRet
    /\ out = <<>>
    /\ result = [r |-> "idle"]
    /\ last = "tokenize"

\* tokenize has been called on the characters of a source: lines 99-101
InitTokenize ==
    /\ chars \in Sources
    /\ char_i = 0
    /\ tokens = <<>>
    /\ tokenized = [r |-> "while"]
    /\ StagesIdle

\* the character at i
Cur == chars[char_i + 1]

AtChar == tokenized.r = "while" /\ char_i < Len(chars)

\* return Err(TokenizerError::SyntaxError(..))
Fail(error) ==
    /\ tokenized' = [r |-> "Err", error |-> error]
    /\ UNCHANGED <<char_i, tokens>>

\* tokens.push(..) and the cursor the iteration ends with
Push(token_info, next_i) ==
    /\ tokens' = Append(tokens, token_info)
    /\ char_i' = next_i
    /\ UNCHANGED tokenized

\* lines 105-114
tokenize_punct ==
    /\ AtChar
    /\ Cur \in PunctChars
    /\ Push(TokenInfo(char_i, char_i, PunctToken(Cur)), char_i + 1)
    /\ UNCHANGED <<ivars, pvars, chars>>

\* line 115
tokenize_space ==
    /\ AtChar
    /\ Cur = 32
    /\ char_i' = char_i + 1
    /\ UNCHANGED <<ivars, pvars, chars, tokens, tokenized>>

\* lines 117-132
tokenize_idn ==
    /\ AtChar
    /\ IsIdnStart(Cur)
    /\ LET j == char_i
           k == IdnEnd(chars, char_i)
       IN  Push(TokenInfo(j, k, TokIdn(SubSeq(chars, j + 1, k))), StepBack(k) + 1)
    /\ UNCHANGED <<ivars, pvars, chars>>

\* lines 134-169
tokenize_int ==
    /\ AtChar
    /\ Cur \in (48..57) \cup {45}
    /\ LET j == char_i
           run == IntEnd(chars, char_i + 1)
           num == parse_isize(SubSeq(chars, j + 1, run.k))
       IN  IF run.letter THEN Fail(SyntaxError(j, run.k, "Invalid number literal"))
           ELSE IF ~num.ok THEN Fail(SyntaxError(j, run.k, "Invalid isize"))
           ELSE Push(TokenInfo(j, run.k, TokInt(num.n)), StepBack(run.k) + 1)
    /\ UNCHANGED <<ivars, pvars, chars>>

\* lines 171-219
tokenize_str ==
    /\ AtChar
    /\ Cur = 34
    /\ LET j == char_i
       IN  IF j + 1 >= Len(chars) THEN Fail(SyntaxError(j, j, EofString))
           ELSE LET scan == StrScan(chars, j, j + 1, <<>>)
                IN  IF scan.r = "Err" THEN Fail(scan.error)
                    ELSE Push(TokenInfo(j, scan.k + 1, TokStr(scan.temp)), scan.k + 1)
    /\ UNCHANGED <<ivars, pvars, chars>>

\* lines 221-243
tokenize_comment ==
    /\ AtChar
    /\ Cur = 91
    /\ LET j == char_i
           k == IF j + 1 >= Len(chars) THEN -1 ELSE CommentEnd(chars, j + 1)
       IN  IF k = -1 THEN Fail(SyntaxError(j, j, EofComment))
           ELSE /\ char_i' = k + 1
                /\ UNCHANGED <<tokens, tokenized>>
    /\ UNCHANGED <<ivars, pvars, chars>>

\* lines 245-251
tokenize_invalid ==
    /\ AtChar
    /\ Cur \notin PunctChars \cup {32, 45, 34, 91}
    /\ ~IsIdnStart(Cur) /\ ~IsDigit(Cur)
    /\ Fail(SyntaxError(char_i, char_i, "Invalid character"))
    /\ UNCHANGED <<ivars, pvars, chars>>

\* line 257
tokenize_ok ==
    /\ tokenized.r = "while"
    /\ char_i >= Len(chars)
    /\ tokenized' = [r |-> "Ok", tokens |-> tokens]
    /\ UNCHANGED <<ivars, pvars, chars, char_i, tokens>>

NextTokenize ==
    \/ tokenize_punct
    \/ tokenize_space
    \/ tokenize_idn
    \/ tokenize_int
    \/ tokenize_str
    \/ tokenize_comment
    \/ tokenize_invalid
    \/ tokenize_ok

SpecTokenize == InitTokenize /\ [][NextTokenize]_vars

(***************************************************************************)
(* main.rs: main.  The source is tokenized, the tokens are parsed, the     *)
(* parsed program is interpreted.                                          *)
(***************************************************************************)
\* lines 76-77
InitMain ==
    /\ chars \in ProgramSources
    /\ char_i = 0
    /\ tokens = <<>>
    /\ tokenized = [r |-> "while"]
    /\ StagesIdle

\* lines 81-105: the tokens of a successful tokenize are handed to parse
main_parse ==
    /\ tokenized.r = "Ok"
    /\ parsed.r = "idle"
    /\ token_infos' = tokenized.tokens
    /\ parsed' = [r |-> "split"]
    /\ last' = "parse"
    /\ UNCHANGED <<tvars, labels, instr_infos, slots, stack, ret, out, result,
                   token_infos_lines, n, parsed_labels, instrs>>

\* lines 109-203: the labels and instructions of a successful parse are
\* handed to interpret
main_interpret ==
    /\ parsed.r = "Ok"
    /\ result.r = "idle"
    /\ labels' = parsed.labels
    /\ instr_infos' = parsed.instrs
    /\ slots' = <<>>
    /\ stack' = <<FrameInterpret, FrameInstrs(0)>>
    /\ ret' = NoRet
    /\ result' = Running
    /\ last' = "interpret"
    /\ UNCHANGED <<tvars, pvars, out>>

NextMain ==
    \/ tokenize_punct
    \/ tokenize_space
    \/ tokenize_idn
    \/ tokenize_int
    \/ tokenize_str
    \/ tokenize_comment
    \/ tokenize_invalid
    \/ tokenize_ok
    \/ main_parse
    \/ parse_lines
    \/ parse_label_line
    \/ parse_call_line
    \/ parse_other_line
    \/ parse_ok
    \/ main_interpret
    \/ Next

SpecMain == InitMain /\ [][NextMain]_vars


(***************************************************************************)
(* Properties of the interpreter.                                          *)
(***************************************************************************)
\* the numeric codes as the documentation lists them
DocumentedCode(kind) ==
    CASE kind = "Error" -> 400
      [] kind = "TypeError" -> 401
      [] kind = "LabelError" -> 402
      [] kind = "ValueError" -> 403
      [] kind = "NoSlotError" -> 404

ErrPending == ret.r = "Err" /\ ret.signal.s \in {"Error", "InterpreterError"}

\* the Error a pending Signal::Error or Signal::InterpreterError carries
PendingError ==
    IF ret.signal.s = "Error" THEN ret.signal.error_info.error
    ELSE ret.signal.interpreter_error.error_info.error

\* a CatchError whose guarded expression is being evaluated
Guarding(frame) ==
    /\ frame.k = "interpret_fun_call"
    /\ frame.fun.f = "CatchError"
    /\ Len(frame.vals) = 1

\* the guarded expression of the innermost call has handed CatchError an error
Intercepts == Len(stack) > 0 /\ Guarding(Top) /\ ErrPending

JumpPending == ret.r = "Err" /\ ret.signal.s = "Jump"

\* C1: when CatchError intercepts an error of its guarded expression, bare
\* or wrapped as an InterpreterError by a callee's loop, it returns the Jump
\* to its label with slot -1 holding the documented code of that error, and
\* the slot table stays as it is until a loop takes the Jump.
C1_CatchCode ==
    [][ /\ Intercepts =>
            /\ ret' = Err(SignalJump(labels[Top.vals[1].s]))
            /\ -1 \in DOMAIN slots'
            /\ slots'[-1] = IntV(DocumentedCode(PendingError.error))
        /\ JumpPending => slots' = slots
      ]_vars

\* a callee's error, wrapped by the callee's loop, has been caught
C1_Witness ==
    /\ last = "CatchError:InterpreterError"
    /\ JumpPending
    /\ ret.signal.i = labels[h]
    /\ slots[-1] = IntV(400)

\* the argument values an arm holds when it takes its step
Held == Fill(Top.fun.args, Resume)

\* Set has evaluated both arguments and writes the slot
SetCompletes ==
    /\ InArm("Set") /\ ret.r # "Err"
    /\ Len(Held) = 2
    /\ Held[1].t = "Int"

\* Get has evaluated its argument to an Int
GetReads ==
    /\ InArm("Get") /\ ret.r # "Err"
    /\ Len(Held) = 1
    /\ Held[1].t = "Int"

SlotChanged(k) == k \notin DOMAIN slots \/ slots'[k] # slots[k]

\* C2 as stated: Set(k, v) leaves slots[k] = v, Get(k) returns slots[k],
\* no slot is ever removed and nothing but Set(k, _) changes slots[k], for
\* every key k.
C2_Original ==
    [][ /\ DOMAIN slots \subseteq DOMAIN slots'
        /\ \A k \in DOMAIN slots' :
               SlotChanged(k) => (SetCompletes /\ Held[1].n = k)
        /\ SetCompletes =>
               (Held[1].n \in DOMAIN slots' /\ slots'[Held[1].n] = Held[2])
        /\ (GetReads /\ Held[1].n \in DOMAIN slots) => ret' = Ok(slots[Held[1].n])
      ]_vars

\* C2 (amended): Set(k, v) leaves slots[k] = v, Get(k) returns slots[k], no
\* slot is ever removed, and slots[k] changes only when a Set(k, _)
\* completes or, for k = -1, when CatchError intercepts an error.
C2_SlotPersistence ==
    [][ /\ DOMAIN slots \subseteq DOMAIN slots'
        /\ \A k \in DOMAIN slots' :
               SlotChanged(k) =>
                   \/ SetCompletes /\ Held[1].n = k
                   \/ k = -1 /\ Intercepts
        /\ SetCompletes =>
               (Held[1].n \in DOMAIN slots' /\ slots'[Held[1].n] = Held[2])
        /\ (GetReads /\ Held[1].n \in DOMAIN slots) => ret' = Ok(slots[Held[1].n])
      ]_vars

\* a catch has written slot -1 and slot 0 still holds what Set(0, 1) wrote
C2_Witness ==
    /\ last = "CatchError:Error"
    /\ DOMAIN slots = {-1, 0}
    /\ slots[0] = IntV(1)
    /\ slots[-1] = IntV(402)

\* C3: a loop that is handed Jump(target) dispatches the instruction at
\* target + 1 next: it stays the innermost loop with its cursor at
\* target + 1, and a loop always dispatches the instruction at its cursor,
\* or finishes with Ok(None) when the cursor has left the list.
C3_JumpTarget ==
    [][ /\ (InLoop /\ JumpPending) =>
            /\ stack' = SetTop(FrameInstrs(ret.signal.i + 1))
            /\ ret' = NoRet
        /\ (InLoop /\ ret = NoRet) =>
            IF Top.i >= Len(instr_infos)
            THEN stack' = Pop /\ ret' = Ok(NoneV)
            ELSE LET instr == instr_infos[Top.i + 1].instr
                 IN  IF instr.instr = "FunCall"
                     THEN stack' = Append(stack, FrameFunCall(instr.fun, <<>>))
                     ELSE stack' = SetTop(FrameInstrs(Top.i + 1))
      ]_vars

\* a Jump to the last index has been taken: the cursor is past the list
C3_Witness ==
    /\ last = "loop:Jump"
    /\ InLoop
    /\ Top.i = Len(instr_infos)
    /\ IsLabel(instr_infos[Top.i].instr)

\* the program f:"g" / p:.0 / ; g / j:"h" / s:0 1 / ; h / r:7
CalleeProgram ==
    << Stmt(Call1("FunJump", Lit(StrV(g)))),
       Stmt(Call1("Print", Call1("Get", Lit(IntV(0))))),
       LabelPlaceHolder(g),
       Stmt(Call1("Jump", Lit(StrV(h)))),
       Stmt(Call2("Set", Lit(IntV(0)), Lit(IntV(1)))),
       LabelPlaceHolder(h),
       Stmt(Call1("Return", Lit(IntV(7)))) >>

\* C4: a loop that is handed Return(v) ends at once with Ok(v) and no other
\* frame is touched; the FunJump that called the loop yields v to its own
\* caller; interpret turns the Ok of the outermost loop into success.  No
\* step changes a frame below the innermost one, so the caller's loop still
\* stands at the statement that holds the FunJump.
C4_Return ==
    [][ /\ (InLoop /\ ret.r = "Err" /\ ret.signal.s = "Return") =>
            /\ stack' = Pop
            /\ ret' = Ok(ret.signal.v)
            /\ slots' = slots /\ out' = out
        /\ (InArm("FunJump") /\ Len(Top.vals) = 1 /\ ret.r = "Ok") =>
            /\ stack' = Pop
            /\ ret' = Ok(ret.v)
        /\ (Len(stack) > 0 /\ Top.k = "interpret" /\ ret.r = "Ok") =>
            result' = [r |-> "Ok"]
        /\ \A j \in 1..(Len(stack) - 1) : j <= Len(stack') => stack'[j] = stack[j]
      ]_vars

\* a callee that jumped before its Return has handed 7 to its FunJump
C4_Witness ==
    /\ instr_infos = InstrInfosOf(CalleeProgram)
    /\ last = "loop:Return"
    /\ InArm("FunJump")
    /\ ret = Ok(IntV(7))
    /\ stack[Len(stack) - 1] = FrameInstrs(0)

\* no CatchError stands between the pending error and interpret
Uncaught == ErrPending /\ \A j \in 1..Len(stack) : ~Guarding(stack[j])

\* the program !:42 / p:"unreached"
ThrowProgram ==
    << Stmt(Call1("ThrowError", Lit(IntV(42)))),
       Stmt(Call1("Print", Lit(StrV(<<117, 110, 114, 101, 97, 99, 104, 101, 100>>)))) >>

\* C5: while an error is pending that no CatchError guards, every step only
\* returns from the innermost call: nothing is dispatched, no slot is
\* written, no callback is invoked, and the same error stays pending until
\* interpret returns an InterpreterError that carries it.  For
\* !:42 / p:"unreached" interpret ends with code 400, message "42" and
\* nothing printed.
C5_Uncaught ==
    [][ /\ Uncaught =>
            /\ Len(stack') < Len(stack)
            /\ slots' = slots /\ out' = out
            /\ last' \notin {"Input", "Input:Err", "FunCall", "LabelPlaceHolder"}
            /\ IF stack' = <<>>
               THEN /\ result'.r = "Err"
                    /\ result'.interpreter_error.error_info.error = PendingError
                    /\ error_code(result'.interpreter_error.error_info.error)
                           = DocumentedCode(PendingError.error)
               ELSE /\ ret'.r = "Err"
                    /\ ret'.signal.s \in {"Error", "InterpreterError"}
                    /\ (IF ret'.signal.s = "Error"
                        THEN ret'.signal.error_info.error
                        ELSE ret'.signal.interpreter_error.error_info.error)
                           = PendingError
        /\ (instr_infos = InstrInfosOf(ThrowProgram) /\ result'.r # "running") =>
            /\ result'.r = "Err"
            /\ error_code(result'.interpreter_error.error_info.error) = 400
            /\ result'.interpreter_error.error_info.error.msg = <<52, 50>>
            /\ out' = <<>>
      ]_vars

\* a callee's uncaught error has reached interpret through two loops
C5_Witness ==
    /\ result.r = "Err"
    /\ last = "interpret:return"
    /\ result.interpreter_error.error_info.error = Error(<<52, 50>>)
    /\ result.interpreter_error.instr_info.start > 0
    /\ out = <<>>

\* C6: when the guarded expression of a CatchError yields a value, the
\* CatchError yields that value; when it yields a Jump or a Return, the
\* CatchError yields that very signal; either way the slot table is left
\* as it is.
C6_CatchTransparent ==
    [][ /\ (Len(stack) > 0 /\ Guarding(Top) /\ ret.r = "Ok") =>
            /\ stack' = Pop
            /\ ret' = Ok(ret.v)
            /\ slots' = slots
        /\ (Len(stack) > 0 /\ Guarding(Top) /\ ret.r = "Err"
              /\ ret.signal.s \in {"Jump", "Return"}) =>
            /\ stack' = Pop
            /\ ret' = ret
            /\ slots' = slots
        /\ (InArm("CatchError") /\ ret.r # "Err" /\ Len(Top.vals) = 0
              /\ Len(Held) = 2 /\ Held[1].t = "Str" /\ Held[1].s \in DOMAIN labels) =>
            /\ stack' = Pop
            /\ ret' = Ok(Held[2])
            /\ slots' = slots
      ]_vars

\* a Return has passed through a CatchError whose label exists, and no
\* slot -1 was written
C6_Witness ==
    /\ last = "CatchError:signal"
    /\ ret = Err(SignalReturn(IntV(1)))
    /\ h \in DOMAIN labels
    /\ -1 \notin DOMAIN slots

\* C7: the slot table is empty when interpret starts; a Get with an Int key
\* yields the slot's value, or None when the key is absent, never an error;
\* and no step of Get changes the slot table.
C7_GetTotal ==
    /\ [](last = "interpret" => slots = <<>>)
    /\ [][ /\ GetReads =>
               ret' = IF Held[1].n \in DOMAIN slots THEN Ok(slots[Held[1].n])
                      ELSE Ok(NoneV)
           /\ InArm("Get") => slots' = slots
         ]_vars

\* Get(-1) on the empty slot table has yielded None
C7_Witness ==
    /\ last = "Get"
    /\ ret = Ok(NoneV)
    /\ slots = <<>>

\* truth as the documentation defines it
DocumentedTruthy(v) == (v.t = "Int" /\ v.n # 0) \/ (v.t = "Str" /\ Len(v.s) > 0)

\* If holds the value of its condition and has not evaluated its second
\* argument
IfDecides == InArm("If") /\ ret.r # "Err" /\ Len(Top.vals) = 0 /\ Len(Held) >= 1

C10_NoLeak ==
    /\ result.r \in {"running", "Ok", "Err", "exit"}
    /\ (Len(stack) > 0 /\ Top.k = "interpret" /\ ret # NoRet) =>
           \/ ret.r = "Ok"
           \/ ret.r = "Err" /\ ret.signal.s = "InterpreterError"

\* a Return at top level has reached interpret as Ok
C10_Witness ==
    /\ Len(stack) = 1
    /\ Top.k = "interpret"
    /\ last = "loop:Return"
    /\ ret.r = "Ok"

(***************************************************************************)
(* Properties of the parser.                                               *)
(***************************************************************************)
\* C9: parse never aborts the process: for every token list it returns
\* Ok((labels, instrs)) or a ParseErrorInfo, a line that is a lone Smi and a
\* line whose last token is a Dot in argument position included.
C9_ParseTotal == parsed.r # "panic"

\* parse has panicked on a line that is a lone Smi
C9_LoneSmi ==
    /\ parsed.r = "panic"
    /\ Len(Line) = 1
    /\ Line[1].token = Semi

\* parse has panicked on a line whose last token is a Dot in argument position
C9_TrailingDot ==
    /\ parsed.r = "panic"
    /\ Len(Line) > 2
    /\ Line[Len(Line)].token = Dot

\* the lines of a token list that hold a token: the tokens that are no Eol
\* and stand first or right after an Eol
NonEmptyLines(toks) ==
    Cardinality({j \in 1..Len(toks) :
                    /\ toks[j].token # Eol
                    /\ (j = 1 \/ toks[j - 1].token = Eol)})

\* C11: whenever parse succeeds, every label maps to an index of the
\* instruction list, the instruction there is the LabelPlaceHolder of that
\* label, every LabelPlaceHolder stands at the index its label maps to, and
\* there are as many instructions as non-empty lines.
C11_LabelsAgree ==
    parsed.r = "Ok" =>
        /\ \A name \in DOMAIN parsed.labels :
               /\ parsed.labels[name] \in 0..(Len(parsed.instrs) - 1)
               /\ parsed.instrs[parsed.labels[name] + 1].instr = LabelPlaceHolder(name)
        /\ \A j \in 1..Len(parsed.instrs) :
               IsLabel(parsed.instrs[j].instr) =>
                   /\ parsed.instrs[j].instr.name \in DOMAIN parsed.labels
                   /\ parsed.labels[parsed.instrs[j].instr.name] = j - 1
        /\ Len(parsed.instrs) = NonEmptyLines(token_infos)

\* parse has succeeded on $ / / ; h / p:.0: the label after the empty line
\* has index 1
C11_Witness ==
    /\ parsed.r = "Ok"
    /\ Len(token_infos) = 10
    /\ token_infos[2].token = Eol /\ token_infos[3].token = Eol
    /\ parsed.labels[h] = 1
    /\ Len(parsed.instrs) = 3

\* the head token the grammar gives a function
HeadToken(f) ==
    CASE f = "If" -> Tok("Que")
      [] f = "Equal" -> Tok("Eql")
      [] f = "CatchError" -> Tok("Hsh")
      [] f = "Exit" -> Tok("Dol")
      [] f = "EmptySlot" -> Tok("Til")
      [] f = "ThrowError" -> Tok("Not")
      [] OTHER -> TokIdn(CHOOSE name \in {<<c>> : c \in 97..122} : FunOfIdn(name) = f)

RECURSIVE Renderings(_)
\* the token sequences the grammar gives an expression: a literal is its
\* token, a call is its head, a colon when it takes arguments, and its
\* arguments in order; Get of an Int literal is also a Dot and the Int
Renderings(expr) ==
    IF expr.e = "Value"
    THEN {<<IF expr.v.t = "Str" THEN TokStr(expr.v.s) ELSE TokInt(expr.v.n)>>}
    ELSE LET f == expr.fun.f
             args == expr.fun.args
             head == <<HeadToken(f)>>
         IN  CASE Len(args) = 0 -> {head}
               [] Len(args) = 1 ->
                    {head \o <<Colon>> \o a : a \in Renderings(args[1])}
                        \cup (IF f = "Get" /\ args[1].e = "Value" /\ args[1].v.t = "Int"
                              THEN {<<Dot, TokInt(args[1].v.n)>>} ELSE {})
               [] Len(args) = 2 ->
                    {head \o <<Colon>> \o a \o b :
                        a \in Renderings(args[1]), b \in Renderings(args[2])}

\* the tokens of a line without their spans
TokensOf(line) == [j \in 1..Len(line) |-> line[j].token]

\* C12: a line is accepted as a function-call statement only if its tokens
\* are exactly the tokens of the call with its nested arguments; no token
\* of an accepted line is left over.
C12_NoLeftover ==
    \A j \in 1..Len(instrs) :
        instrs[j].instr.instr = "FunCall" =>
            TokensOf(token_infos_lines[j]) \in Renderings(ExprFunCall(instrs[j].instr.fun))

(***************************************************************************)
(* Properties of the whole pipeline.                                       *)
(***************************************************************************)
\* ; loop / s:0 a:g:0 1 / ?:e:g:0 10 j:"end" / j:"loop" / ; end / p:"done"
LoopSource ==
    <<59, 32, 108, 111, 111, 112, 10, 115, 58, 48, 32, 97, 58, 103, 58,
      48, 32, 49, 10, 63, 58, 101, 58, 103, 58, 48, 32, 49, 48, 32, 106,
      58, 34, 101, 110, 100, 34, 10, 106, 58, 34, 108, 111, 111, 112, 34,
      10, 59, 32, 101, 110, 100, 10, 112, 58, 34, 100, 111, 110, 101, 34>>

\* main has nothing left to run: a stage has failed or interpret is over
Finished ==
    \/ tokenized.r = "Err"
    \/ parsed.r \in {"Err", "panic"}
    \/ result.r \in {"Ok", "Err", "exit"}

\* C13 as stated: the run of the loop program ends with success, stdout has
\* received exactly done and a newline, and slot 0 holds Int(10).
C13_Original ==
    (chars = LoopSource /\ Finished) =>
        /\ result.r = "Ok"
        /\ out = <<<<100, 111, 110, 101, 10>>>>
        /\ 0 \in DOMAIN slots /\ slots[0] = IntV(10)

\* C13 (amended): on the loop program tokenize succeeds and parse fails on
\* the third line with UnknownFunctionName for the identifier e, code 305;
\* interpret is never called, stdout receives nothing and no slot is
\* written.
C13_LoopProgram ==
    chars = LoopSource =>
        /\ tokenized.r \in {"while", "Ok"}
        /\ parsed.r \in {"idle", "split", "for", "Err"}
        /\ parsed.r = "for" => n <= 2
        /\ parsed.r = "Err" =>
               /\ n = 2
               /\ parsed.info.error
                      = UnknownFunctionName(TokenInfo(21, 22, TokIdn(<<101>>)))
               /\ parse_error_code(parsed.info.error) = 305
        /\ result.r = "idle"
        /\ stack = <<>>
        /\ out = <<>>
        /\ slots = <<>>

\* parse has failed on the loop program
C13_Witness ==
    /\ chars = LoopSource
    /\ parsed.r = "Err"
    /\ Len(instrs) = 2

(***************************************************************************)
(* Properties of the tokenizer.                                            *)
(***************************************************************************)
\* the source characters of the half-open span [start, end)
SpanText(start, end) == SubSeq(chars, start + 1, end)

\* the characters of the span are the characters of the token
SpanHoldsToken(token_info) ==
    LET text == SpanText(token_info.start, token_info.end)
        token == token_info.token
    IN  /\ token_info.end >= token_info.start
        /\ CASE token.token = "Idn" -> text = token.s
             [] token.token = "Int" ->
                    parse_isize(text).ok /\ parse_isize(text).n = token.n
             [] token.token = "Str" ->
                    Len(text) >= 2 /\ text[1] = 34 /\ text[Len(text)] = 34
             [] OTHER ->
                    Len(text) = 1 /\ text[1] \in PunctChars /\ PunctToken(text[1]) = token

\* the character at index k (counted from 0) follows an opening bracket
\* with no closing bracket in between
InBrackets(k) ==
    \E a \in 0..k :
        /\ chars[a + 1] = 91
        /\ \A x \in a..(k - 1) : chars[x + 1] # 93

\* C14: when tokenize succeeds, the span of every token is half-open with
\* end >= start and holds exactly the characters of the token, punctuation
\* and Eol tokens included, and every character that is neither a space nor
\* part of a comment lies in the span of exactly one token.
C14_Spans ==
    tokenized.r = "Ok" =>
        /\ \A j \in 1..Len(tokenized.tokens) : SpanHoldsToken(tokenized.tokens[j])
        /\ \A k \in 0..(Len(chars) - 1) :
               LET holders == {j \in 1..Len(tokenized.tokens) :
                                  /\ tokenized.tokens[j].start <= k
                                  /\ k < tokenized.tokens[j].end}
               IN  \/ Cardinality(holders) = 1
                   \/ Cardinality(holders) = 0 /\ (chars[k + 1] = 32 \/ InBrackets(k))

(***************************************************************************)
(* Properties of the pipeline's spans.                                     *)
(***************************************************************************)
\* the indices of the source characters a token was made of: the one
\* character of a punctuation token (lines 105-114), else [start, end)
TokenChars(token_info) ==
    IF token_info.token.token \in {"Idn", "Int", "Str"}
    THEN token_info.start..(token_info.end - 1)
    ELSE {token_info.start}

\* the span of the InstrInfo holds every character of every token of line
SpanCovers(instr_info, line) ==
    \A j \in 1..Len(line) :
        TokenChars(line[j]) \subseteq instr_info.start..(instr_info.end - 1)

\* C15: the span of every InstrInfo that parse emits runs from the start of
\* the first token of its line to the end of the last and holds every
\* character of the statement, whatever the last token is; the span of an
\* InterpreterError is the span of the failing statement, for a:"x" 1 the
\* whole line with code 400.
C15_InstrSpans ==
    /\ \A j \in 1..Len(instrs) :
           /\ instrs[j].start = token_infos_lines[j][1].start
           /\ instrs[j].end = token_infos_lines[j][Len(token_infos_lines[j])].end
           /\ SpanCovers(instrs[j], token_infos_lines[j])
    /\ result.r = "Err" =>
           \E j \in 1..Len(instrs) : result.interpreter_error.instr_info = instrs[j]
    /\ (chars = <<97, 58, 34, 120, 34, 32, 49>> /\ Finished) =>
           /\ result.r = "Err"
           /\ error_code(result.interpreter_error.error_info.error) = 400
           /\ result.interpreter_error.instr_info.start = 0
           /\ result.interpreter_error.instr_info.end = 7

(***************************************************************************)
(* Properties of the tokenizer: comments, strings, integers.               *)
(***************************************************************************)
\* [ comment ] s:0 1
CommentSource == <<91, 32, 99, 111, 109, 109, 101, 110, 116, 32, 93, 32, 115, 58, 48, 32, 49>>

\* C16 as stated: tokenizing [ comment ] s:0 1 yields three tokens.
C16_Original ==
    (chars = CommentSource /\ tokenized.r = "Ok") => Len(tokenized.tokens) = 3

\* C16 (amended): a step at an opening bracket pushes no token and either
\* moves the cursor past the next closing bracket or fails when there is
\* none; tokenizing [ comment ] s:0 1 yields the four tokens of s:0 1,
\* which are Idn s, Col, Int 0 and Int 1.
C16_Comment ==
    [][ /\ (AtChar /\ Cur = 91) =>
            /\ tokens' = tokens
            /\ IF \E k \in (char_i + 1)..(Len(chars) - 1) : chars[k + 1] = 93
               THEN /\ tokenized' = tokenized
                    /\ chars[char_i'] = 93
                    /\ \A k \in (char_i + 1)..(char_i' - 2) : chars[k + 1] # 93
               ELSE tokenized'.r = "Err"
        /\ (chars = CommentSource /\ tokenized'.r = "Ok") =>
               TokensOf(tokenized'.tokens)
                   = <<TokIdn(<<115>>), Colon, TokInt(0), TokInt(1)>>
      ]_vars

\* tokenize has succeeded on [ comment ] s:0 1
C16_Witness ==
    /\ chars = CommentSource
    /\ tokenized.r = "Ok"
    /\ Len(tokenized.tokens) = 4

RECURSIVE ClosingQuote(_)
\* the index of the first quote at or after k that no backslash escapes, or
\* -1 when there is none: a backslash takes the character after it along
ClosingQuote(k) ==
    IF k >= Len(chars) THEN -1
    ELSE IF chars[k + 1] = 34 THEN k
    ELSE IF chars[k + 1] = 92 THEN ClosingQuote(k + 2)
    ELSE ClosingQuote(k + 1)

RECURSIVE Unescape(_)
\* the content a literal's text stands for: backslash-n is a newline,
\* backslash-t a tab, backslash-x is x for every other x
Unescape(text) ==
    IF Len(text) = 0 THEN <<>>
    ELSE IF text[1] = 92
    THEN <<IF text[2] = 110 THEN 10 ELSE IF text[2] = 116 THEN 9 ELSE text[2]>>
             \o Unescape(SubSeq(text, 3, Len(text)))
    ELSE <<text[1]>> \o Unescape(SubSeq(text, 2, Len(text)))

\* "abc\n", the last two characters of the literal a backslash and an n
EscapeSource == <<34, 97, 98, 99, 92, 110, 34>>

\* C17: a step at a quote pushes Str(content) for the text up to the next
\* unescaped quote, with the escapes replaced and a span that holds both
\* quotes, and nothing else; when the input ends before a closing quote the
\* step fails with a SyntaxError of code 201 and no token list is returned.
\* "abc\n" gives Str of a, b, c and a newline with the span [0, 7).
C17_Strings ==
    [][ /\ (AtChar /\ Cur = 34) =>
            LET close == ClosingQuote(char_i + 1)
            IN  IF close # -1
                THEN /\ tokenized' = tokenized
                     /\ tokens' = Append(tokens,
                            TokenInfo(char_i, close + 1,
                                TokStr(Unescape(SubSeq(chars, char_i + 2, close)))))
                     /\ char_i' = close + 1
                ELSE /\ tokenized'.r = "Err"
                     /\ tokenized'.error.error = "SyntaxError"
                     /\ tokenizer_error_code(tokenized'.error) = 201
                     /\ DOMAIN tokenized' = {"r", "error"}
        /\ (chars = EscapeSource /\ tokenized'.r = "Ok") =>
               tokenized'.tokens = <<TokenInfo(0, 7, TokStr(<<97, 98, 99, 10>>))>>
      ]_vars

\* a literal with an escaped quote inside has been pushed
C17_Witness ==
    /\ tokenized.r = "while"
    /\ Len(tokens) = 1
    /\ tokens[1] = TokenInfo(0, 6, TokStr(<<97, 34, 98>>))

\* C18: a step at a digit or a minus sign takes the run of that character
\* and the digits after it; when a letter follows the run the step fails
\* with Invalid number literal; else when the run is a lone minus sign or
\* leaves the isize range it fails with Invalid isize; else it pushes
\* Int(n) for the number the run denotes.  A minus sign after the first
\* character ends the run.
C18_Integers ==
    [][ (AtChar /\ Cur \in (48..57) \cup {45}) =>
            LET stop == CHOOSE k \in (char_i + 1)..Len(chars) :
                            /\ \A x \in (char_i + 1)..(k - 1) : chars[x + 1] \in 48..57
                            /\ k < Len(chars) => chars[k + 1] \notin 48..57
                run == SubSeq(chars, char_i + 1, stop)
                digits == IF run[1] = 45 THEN SubSeq(run, 2, Len(run)) ELSE run
            IN  IF stop < Len(chars) /\ IsLetter(chars[stop + 1])
                THEN /\ tokenized'.r = "Err"
                     /\ tokenized'.error.msg = "Invalid number literal"
                ELSE IF Len(digits) = 0 \/ ~InIsizeRange(digits, run[1] = 45)
                THEN /\ tokenized'.r = "Err"
                     /\ tokenized'.error.msg = "Invalid isize"
                ELSE /\ tokenized' = tokenized
                     /\ char_i' = stop
                     /\ tokens' = Append(tokens,
                            TokenInfo(char_i, stop,
                                TokInt(IF run[1] = 45 THEN 0 - DigitsValue(digits)
                                       ELSE DigitsValue(digits))))
      ]_vars

\* a run that leaves the isize range has failed
C18_Witness ==
    /\ Len(chars) = 19
    /\ chars[1] = 57
    /\ tokenized.r = "Err"
    /\ tokenized.error = SyntaxError(0, 19, "Invalid isize")

\* the tokens at positions j and j + 1 of the token list are a whole line
\* that defines the label name
DefAt(j, name) ==
    /\ j + 1 <= Len(token_infos)
    /\ (j = 1 \/ token_infos[j - 1].token = Eol)
    /\ token_infos[j].token = Semi
    /\ token_infos[j + 1].token = TokIdn(name)
    /\ (j + 2 <= Len(token_infos) => token_infos[j + 2].token = Eol)

\* the non-empty lines that start before position j
LinesBefore(j) == NonEmptyLines(SubSeq(token_infos, 1, j - 1))

\* C19: when parse fails with LabelAlreadySet { label, line }, the line the
\* error info carries is a definition of label, line is the first definition
\* of label and stands before it, every line before the reported one was
\* accepted, and the result carries no label table and no instruction list;
\* a line that defines a label again is never accepted.
C19_DuplicateLabel ==
    /\ (parsed.r = "Err" /\ parsed.info.error.error = "LabelAlreadySet") =>
           /\ DOMAIN parsed = {"r", "info"}
           /\ \E first, second \in 1..Len(token_infos) :
                  /\ first < second
                  /\ DefAt(first, parsed.info.error.label)
                  /\ DefAt(second, parsed.info.error.label)
                  /\ parsed.info.error.line = SubSeq(token_infos, first, first + 1)
                  /\ parsed.info.line = SubSeq(token_infos, second, second + 1)
                  /\ \A j \in 1..(second - 1) :
                         DefAt(j, parsed.info.error.label) => j = first
                  /\ Len(instrs) = LinesBefore(second)
    /\ \A first, second \in 1..Len(token_infos) :
           (/\ first < second
            /\ token_infos[first + 1].token.token = "Idn"
            /\ DefAt(first, token_infos[first + 1].token.s)
            /\ DefAt(second, token_infos[first + 1].token.s)) =>
               /\ parsed.r # "Ok"
               /\ Len(instrs) <= LinesBefore(second)

\* parse has failed on the third line of ; h / ?:=:.0 0 j:"h" / ; h, with
\* the first line as the earlier definition
C19_Witness ==
    /\ Len(token_infos) = 16
    /\ parsed.r = "Err"
    /\ parsed.info.error = LabelAlreadySet(h, SubSeq(token_infos, 1, 2))
    /\ parsed.info.line = SubSeq(token_infos, 15, 16)
    /\ Len(instrs) = 2

\* the longest continuation tried for a line that ends too early
MaxMissing == 6

\* the token runs that can complete a call: colons and integer arguments
Continuations ==
    UNION {[1..k -> {TokenInfo(0, 0, Colon), TokenInfo(0, 0, TokInt(0))}] :
               k \in 1..MaxMissing}

\* the tokens of the line ran out while a head still needed arguments: the
\* line is the beginning of a call that some continuation completes
RunsOut(line) ==
    \E more \in Continuations :
        LET call == parse_func_call(line \o more)
        IN  /\ call.r = "Ok"
            /\ call.i = Len(line) + Len(more) - 1

\* the arguments that stand complete after the head and colon of a line
\* that holds no other head: its value tokens
ValuesAfterHead(line) ==
    Cardinality({j \in 3..Len(line) : line[j].token.token \in {"Int", "Str"}})

\* C20: when the tokens of a line run out while a head of arity n >= 1
\* still needs arguments, parse fails with NotEnoughArgument for a head of
\* the line, with expected the arity of that head and got a number of
\* arguments below it; when the head of the line is the only head, got is
\* the number of arguments that follow it.
C20_NotEnough ==
    (/\ parsed.r \in {"Err", "panic"}
     /\ n < Len(token_infos_lines)
     /\ Line[1].token.token \in CallHeads
     /\ RunsOut(Line)) =>
        /\ parsed.r = "Err"
        /\ parsed.info.error.error = "NotEnoughArgument"
        /\ parsed.info.error.token_info \in {Line[j] : j \in 1..Len(Line)}
        /\ parsed.info.error.expected
               = Arity(FunOfHead(parsed.info.error.token_info.token))
        /\ parsed.info.error.expected >= 1
        /\ parsed.info.error.got \in 0..(parsed.info.error.expected - 1)
        /\ (\A j \in 2..Len(Line) : Line[j].token.token \in {"Col", "Int", "Str"}) =>
               /\ parsed.info.error.token_info = Line[1]
               /\ parsed.info.error.got = ValuesAfterHead(Line)

\* C20 for the lines that do not end in a Dot
C20_NotEnoughButDot ==
    (n < Len(token_infos_lines) /\ Line[Len(Line)].token # Dot) => C20_NotEnough

\* parse has failed on s:0 with expected 2, got 1
C20_SetOne ==
    /\ parsed.r = "Err"
    /\ TokensOf(Line) = <<TokIdn(<<115>>), Colon, TokInt(0)>>
    /\ parsed.info.error = NotEnoughArgument(Line[1], 2, 1)

\* the text matches [A-Za-z_][A-Za-z0-9_]*
ValidIdentifier(s) ==
    /\ Len(s) >= 1
    /\ s[1] \in (65..90) \cup (97..122) \cup {95}
    /\ \A j \in 2..Len(s) : s[j] \in (65..90) \cup (97..122) \cup (48..57) \cup {95}

\* parse has stopped at a line that starts with Smi and a Str token
AtSmiStr ==
    /\ parsed.r \in {"Err", "panic"}
    /\ n < Len(token_infos_lines)
    /\ Len(Line) >= 2
    /\ Line[1].token = Semi
    /\ Line[2].token.token = "Str"

\* C21: a line that starts with ; and a Str token fails with
\* UnexpectedToken of the Str token, and the note Maybe you meant ;content
\* is attached exactly when the content matches [A-Za-z_][A-Za-z0-9_]*; an
\* empty string gets no note.
C21_Note ==
    AtSmiStr =>
        /\ parsed.r = "Err"
        /\ parsed.info.error = UnexpectedToken(Line[2])
        /\ parsed.info.line = Line
        /\ parsed.info.note.some <=> ValidIdentifier(Line[2].token.s)
        /\ parsed.info.note.some =>
               parsed.info.note.text = <<"Maybe you meant ", <<59>> \o Line[2].token.s>>

\* C21 for the strings that are not empty
C21_NoteButEmpty ==
    (AtSmiStr /\ Line[2].token.s # <<>>) => C21_Note

\* parse has failed on ; "_h1" s with the note for ;_h1
C21_Meant ==
    /\ AtSmiStr
    /\ Len(Line) = 3
    /\ parsed.info.note = Note(<<"Maybe you meant ", <<59, 95, 104, 49>>>>)

(***************************************************************************)
(* Properties of the functions that compute on values.                     *)
(***************************************************************************)
\* the arm of f has evaluated all its arguments and takes its last step
Computes(f) ==
    /\ InArm(f) /\ ret.r # "Err"
    /\ Len(Held) = Len(Top.fun.args)

\* the step raises an error of the given code and yields no value
RaisesCode(code) ==
    /\ ret'.r = "Err"
    /\ ret'.signal.s = "Error"
    /\ error_code(ret'.signal.error_info.error) = code

\* C22: Convert on a Str of exactly one scalar value yields the Int of its
\* code point, for every scalar value; on a Str of any other length it
\* raises ValueError, code 403.
C22_ConvertStr ==
    [][ (Computes("Convert") /\ Held[1].t = "Str") =>
            IF Len(Held[1].s) = 1
            THEN ret' = Ok(IntV(Held[1].s[1]))
            ELSE RaisesCode(403) /\ ret'.signal.error_info.error = ValueError(Held[1])
      ]_vars

\* C22 for the strings of ASCII characters
C22_ConvertAscii ==
    [][ (Computes("Convert") /\ Held[1].t = "Str"
            /\ \A j \in 1..Len(Held[1].s) : Held[1].s[j] < 128) =>
            IF Len(Held[1].s) = 1
            THEN ret' = Ok(IntV(Held[1].s[1]))
            ELSE RaisesCode(403) /\ ret'.signal.error_info.error = ValueError(Held[1])
      ]_vars

\* the scalar values of Unicode
IsScalar(j) == (j >= 0 /\ j <= 55295) \/ (j >= 57344 /\ j <= 1114111)

\* C23: Convert on Int(n) yields the one-character Str of code point n
\* exactly when n is a scalar value, 0..0xD7FF or 0xE000..0x10FFFF; for
\* every other n, negative n and n >= 2^32 included, it raises ValueError,
\* code 403.
C23_ConvertInt ==
    [][ (Computes("Convert") /\ Held[1].t = "Int") =>
            IF "hi" \notin DOMAIN Held[1] /\ IsScalar(Held[1].n)
            THEN ret' = Ok(StrV(<<Held[1].n>>))
            ELSE RaisesCode(403) /\ ret'.signal.error_info.error = ValueError(Held[1])
      ]_vars

\* C23 for the Ints from -2^31 + 1 to 2^31 - 1
C23_ConvertNarrow ==
    [][ (Computes("Convert") /\ Held[1].t = "Int" /\ "hi" \notin DOMAIN Held[1]) =>
            IF IsScalar(Held[1].n)
            THEN ret' = Ok(StrV(<<Held[1].n>>))
            ELSE RaisesCode(403) /\ ret'.signal.error_info.error = ValueError(Held[1])
      ]_vars

\* Convert has yielded the letter A for the Int 2^32 + 65
C23_Wrapped ==
    /\ last = "Convert"
    /\ ret = Ok(StrV(<<65>>))
    /\ instr_infos[1].instr.fun.args[1] = Lit(IntWide(1, 65))

\* the digits of a text after its optional minus sign
Magnitude(s) == IF Len(s) > 0 /\ s[1] = 45 THEN SubSeq(s, 2, Len(s)) ELSE s

\* a decimal string with an optional leading -, no leading zeros and a
\* value in the integer range
PlainDecimal(s) ==
    LET m == Magnitude(s)
    IN  /\ Len(m) >= 1
        /\ \A j \in 1..Len(m) : m[j] \in 48..57
        /\ (m[1] = 48 => Len(m) = 1)
        /\ InIsizeRange(m, Len(m) < Len(s))

\* an optional sign and then digits, at least one
DecimalInteger(s) ==
    LET m == IF Len(s) > 0 /\ s[1] \in {43, 45} THEN SubSeq(s, 2, Len(s)) ELSE s
    IN  Len(m) >= 1 /\ \A j \in 1..Len(m) : m[j] \in 48..57

\* the arm of outer has got back what its argument, the call inner(literal),
\* yielded
Returned(outer, inner) ==
    /\ InArm(outer)
    /\ ret # NoRet
    /\ Top.fun.args[1].e = "FunCall"
    /\ Top.fun.args[1].fun.f = inner
    /\ Top.fun.args[1].fun.args[1].e = "Value"

\* the literal of Returned
Inmost == Top.fun.args[1].fun.args[1].v

\* C24 as stated: Text(Number(Str(s))) is Str(s) for every decimal string s
\* with an optional leading -, no leading zeros and a value in range.
C24_Original ==
    [][ (Returned("Text", "Number") /\ Inmost.t = "Str" /\ PlainDecimal(Inmost.s)) =>
            ret' = Ok(Inmost)
      ]_vars

\* C24 (amended): Text(Number(Str(s))) is Str(s) for every decimal string s
\* with an optional leading -, no leading zeros and a value in range, other
\* than -0, for which it is Str of 0; Number(Text(Int(n))) is Int(n) for
\* every Int n; Number on a Str that is not a decimal integer raises
\* ValueError, code 403.
C24_RoundTrip ==
    [][ /\ (Returned("Text", "Number") /\ Inmost.t = "Str" /\ PlainDecimal(Inmost.s)) =>
               ret' = IF Inmost.s = <<45, 48>> THEN Ok(StrV(<<48>>)) ELSE Ok(Inmost)
        /\ (Returned("Number", "Text") /\ Inmost.t = "Int") => ret' = Ok(Inmost)
        /\ (Computes("Number") /\ Held[1].t = "Str" /\ ~DecimalInteger(Held[1].s)) =>
               /\ RaisesCode(403)
               /\ ret'.signal.error_info.error = ValueError(Held[1])
      ]_vars

\* Text(Number(Str of -19)) has yielded Str of -19
C24_Witness ==
    /\ last = "Text"
    /\ ret = Ok(StrV(<<45, 49, 57>>))
    /\ Len(instr_infos) = 1
    /\ instr_infos[1].instr.fun.args[1].e = "FunCall"
    /\ instr_infos[1].instr.fun.args[1].fun.f = "Number"

\* C25: EmptySlot yields Int(n) for the smallest n >= 0 that is no key of
\* the slot table, whatever negative keys there are, and leaves the slot
\* table as it is; a second EmptySlot right after it yields the same n.
C25_EmptySlot ==
    [][ /\ InArm("EmptySlot") =>
            /\ slots' = slots
            /\ ret'.r = "Ok" /\ ret'.v.t = "Int"
            /\ ret'.v.n >= 0
            /\ ret'.v.n \notin DOMAIN slots
            /\ \A m \in 0..(ret'.v.n - 1) : m \in DOMAIN slots
        /\ (InArm("EmptySlot") /\ Len(stack) > 1
                /\ stack[Len(stack) - 1].k = "interpret_fun_call"
                /\ stack[Len(stack) - 1].fun.f = "Equal"
                /\ Len(stack[Len(stack) - 1].vals) = 1) =>
            ret' = Ok(stack[Len(stack) - 1].vals[1])
      ]_vars

\* the second EmptySlot of =:~ ~ has yielded 1 on a table with the keys
\* -1, 0 and 2
C25_Witness ==
    /\ last = "EmptySlot"
    /\ ret = Ok(IntV(1))
    /\ DOMAIN slots = {-1, 0, 2}
    /\ InArm("Equal")
    /\ Top.vals = <<IntV(1)>>

\* the arm of f still has an argument to evaluate
Evaluating(f) ==
    /\ InArm(f) /\ ret.r # "Err"
    /\ Len(Held) < Len(Top.fun.args)

\* the step hands the next argument to interpret_fun_call
CallsArgument ==
    /\ Len(stack') = Len(stack) + 1
    /\ ret' = NoRet
    /\ out' = out

\* C26: Add yields Int(a + b) for two Ints and the concatenation for two
\* Strs; for every other pair of variants it raises Error, code 400, and
\* yields no value; it does so only after both arguments were evaluated.
C26_Add ==
    [][ /\ Computes("Add") =>
            CASE Held[1].t = "Int" /\ Held[2].t = "Int" ->
                    ret' = Ok(IntV(Held[1].n + Held[2].n))
              [] Held[1].t = "Str" /\ Held[2].t = "Str" ->
                    ret' = Ok(StrV(Held[1].s \o Held[2].s))
              [] OTHER ->
                    /\ RaisesCode(400)
                    /\ ret'.signal.error_info.error.error = "Error"
        /\ Evaluating("Add") => CallsArgument
      ]_vars

\* Add has raised its error on None and None after both p:"h" and w:12
\* wrote their text
C26_Witness ==
    /\ last = "Add"
    /\ ret.r = "Err"
    /\ error_code(ret.signal.error_info.error) = 400
    /\ out = <<h \o <<10>>, <<49, 50>>>>

\* C27: Equal yields Int(1) for two equal Ints or two equal Strs, Int(0)
\* for two different Ints or two different Strs, and raises Error, code
\* 400, for every other pair of variants, None with None included.
C27_Equal ==
    [][ Computes("Equal") =>
            IF Held[1].t = Held[2].t /\ Held[1].t \in {"Int", "Str"}
            THEN ret' = Ok(IntV(IF Held[1] = Held[2] THEN 1 ELSE 0))
            ELSE /\ RaisesCode(400)
                 /\ ret'.signal.error_info.error.error = "Error"
      ]_vars

\* Equal has raised its error on None and None
C27_Witness ==
    /\ last = "Equal"
    /\ ret.r = "Err"
    /\ error_code(ret.signal.error_info.error) = 400
    /\ instr_infos[1].instr.fun.args = <<NoneArg, NoneArg>>

\* C28: Extract on Str s and Int i yields the one-character Str at the
\* zero-based code-point index i when 0 <= i < length(s) and the empty Str
\* for every other i; it never raises an error for a Str and an Int.
C28_Extract ==
    [][ (Computes("Extract") /\ Held[1].t = "Str" /\ Held[2].t = "Int") =>
            ret' = IF 0 <= Held[2].n /\ Held[2].n < Len(Held[1].s)
                   THEN Ok(StrV(SubSeq(Held[1].s, Held[2].n + 1, Held[2].n + 1)))
                   ELSE Ok(StrV(<<>>))
      ]_vars

\* Extract has yielded the empty Str for the index -1 of a Str of two
\* characters, the first of them outside ASCII
C28_Witness ==
    /\ last = "Extract"
    /\ ret = Ok(StrV(<<>>))
    /\ instr_infos[1].instr.fun.args = <<Lit(StrV(<<233, 104>>)), Lit(IntV(-1))>>

\* the text of a value: a Str as it is, an Int in decimal, None as None
Rendering(v) ==
    CASE v.t = "Str" -> v.s
      [] v.t = "Int" -> (IF v.n < 0 THEN <<45>> ELSE <<>>)
                            \o DecDigits(IF v.n < 0 THEN 0 - v.n ELSE v.n)
      [] v.t = "None" -> <<78, 111, 110, 101>>

\* C29: Print(v) calls the stdout callback once, with the text of v and a
\* newline, and yields None; Write does the same without the newline;
\* what the callback returns makes no difference, and no other step of the
\* two arms calls the callback.
C29_PrintWrite ==
    [][ /\ Computes("Print") =>
            /\ out' = Append(out, Rendering(Held[1]) \o <<10>>)
            /\ ret' = Ok(NoneV)
        /\ Computes("Write") =>
            /\ out' = Append(out, Rendering(Held[1]))
            /\ ret' = Ok(NoneV)
        /\ ((InArm("Print") \/ InArm("Write")) /\ ~Computes("Print") /\ ~Computes("Write"))
               => out' = out
      ]_vars

\* Print has yielded None although the callback reported a failure, and the
\* text -1 with its newline was handed over
C29_Witness ==
    /\ last = "Print:Err"
    /\ ret = Ok(NoneV)
    /\ out = <<<<45, 49, 10>>>>

\* position k of the line is an argument position of the line's head, the
\* arguments before it are values, and the token there cannot start an
\* argument
BadArgumentAt(k) ==
    /\ n < Len(token_infos_lines)
    /\ k \in 3..Len(Line)
    /\ Line[1].token.token \in CallHeads
    /\ FunOfHead(Line[1].token) \notin {"unknown", "panic"}
    /\ k - 3 < Arity(FunOfHead(Line[1].token))
    /\ Line[2].token = Colon
    /\ \A j \in 3..(k - 1) : Line[j].token.token \in {"Int", "Str"}
    /\ Line[k].token \in {Colon, Semi}

\* C30: when a token that cannot start an argument stands in an argument
\* position of a call, parse fails with UnexpectedToken of that very
\* token, the one at the argument position.
C30_Offending ==
    \A k \in 1..Len(token_infos) :
        (parsed.r \in {"Err", "panic"} /\ BadArgumentAt(k)) =>
            /\ parsed.r = "Err"
            /\ parsed.info.error = UnexpectedToken(Line[k])

\* what parse reports instead: UnexpectedToken of the token at the index
\* that counts the arguments parsed so far
C30_Reported ==
    \A k \in 1..Len(token_infos) :
        (parsed.r \in {"Err", "panic"} /\ BadArgumentAt(k)) =>
            /\ parsed.r = "Err"
            /\ parsed.info.error = UnexpectedToken(Line[k - 2])

\* parse has failed on s:0 : and reports the colon after the head
C30_HeadColon ==
    /\ parsed.r = "Err"
    /\ BadArgumentAt(4)
    /\ Line[4].token = Colon
    /\ parsed.info.error = UnexpectedToken(Line[2])

(***************************************************************************)
(* The grammar of calls, read from left to right: a call is a head, and   *)
(* for a head of arity k >= 1 a colon and k argument expressions; an       *)
(* argument expression is a Str, an Int, ~, $, a Dot and an Int, or a      *)
(* call.  Each function returns the expression and the tokens left.        *)
(***************************************************************************)
NoParse == [ok |-> FALSE]

RECURSIVE GrammarExpr(_)
RECURSIVE GrammarCall(_)
RECURSIVE GrammarArgs(_, _, _)

GrammarExpr(toks) ==
    IF Len(toks) = 0 THEN NoParse
    ELSE CASE toks[1].token = "Str" ->
                [ok |-> TRUE, expr |-> ExprValue(StrV(toks[1].s)), rest |-> Tail(toks)]
           [] toks[1].token = "Int" ->
                [ok |-> TRUE, expr |-> ExprValue(IntV(toks[1].n)), rest |-> Tail(toks)]
           [] toks[1].token = "Til" ->
                [ok |-> TRUE, expr |-> ExprFunCall(Fun("EmptySlot", <<>>)),
                 rest |-> Tail(toks)]
           [] toks[1].token = "Dol" ->
                [ok |-> TRUE, expr |-> ExprFunCall(Fun("Exit", <<>>)), rest |-> Tail(toks)]
           [] toks[1].token = "Dot" ->
                IF Len(toks) >= 2 /\ toks[2].token = "Int"
                THEN [ok |-> TRUE,
                      expr |-> ExprFunCall(Fun("Get", <<ExprValue(IntV(toks[2].n))>>)),
                      rest |-> Tail(Tail(toks))]
                ELSE NoParse
           [] toks[1].token \in {"Idn", "Eql", "Que", "Not", "Hsh"} -> GrammarCall(toks)
           [] OTHER -> NoParse

GrammarCall(toks) ==
    LET f == FunOfHead(toks[1])
    IN  IF f \in {"unknown", "panic"} THEN NoParse
        ELSE IF Arity(f) = 0
        THEN [ok |-> TRUE, expr |-> ExprFunCall(Fun(f, <<>>)), rest |-> Tail(toks)]
        ELSE IF Len(toks) < 2 \/ toks[2] # Colon THEN NoParse
        ELSE LET a == GrammarArgs(Tail(Tail(toks)), Arity(f), <<>>)
             IN  IF a.ok
                 THEN [ok |-> TRUE, expr |-> ExprFunCall(Fun(f, a.args)), rest |-> a.rest]
                 ELSE NoParse

GrammarArgs(toks, k, args) ==
    IF k = 0 THEN [ok |-> TRUE, args |-> args, rest |-> toks]
    ELSE LET a == GrammarExpr(toks)
         IN  IF a.ok THEN GrammarArgs(a.rest, k - 1, Append(args, a.expr)) ELSE NoParse

\* parse_func_call and the grammar agree on a line: both fail, or both give
\* one expression, and the count returned is that of the tokens the grammar
\* took, less one
Agree(line) ==
    LET call == parse_func_call(line)
        gram == GrammarCall(TokensOf(line))
    IN  IF gram.ok
        THEN /\ call.r = "Ok"
             /\ call.expr = gram.expr
             /\ call.i = Len(line) - Len(gram.rest) - 1
        ELSE call.r \in {"Err", "panic"}

\* C31: on every line that starts with a head, parse_func_call gives the
\* call the grammar gives, with each head taking its arity of argument
\* expressions, a Dot and an Int read as Get of that Int over two tokens,
\* ~ and $ without arguments, and a returned count that puts the caller's
\* cursor right after the nested call; the statement parse stores for an
\* accepted line is that call.
C31_Grammar ==
    /\ \A j \in 1..Len(token_infos_lines) :
           token_infos_lines[j][1].token.token \in CallHeads =>
               /\ Agree(token_infos_lines[j])
               /\ \A k \in 2..Len(token_infos_lines[j]) :
                      token_infos_lines[j][k].token.token
                          \in {"Idn", "Eql", "Que", "Not", "Hsh"} =>
                              Agree(SubSeq(token_infos_lines[j], k,
                                           Len(token_infos_lines[j])))
    /\ \A j \in 1..Len(instrs) :
           instrs[j].instr.instr = "FunCall" =>
               ExprFunCall(instrs[j].instr.fun)
                   = GrammarCall(TokensOf(token_infos_lines[j])).expr

\* parse has accepted p:a:.1 .2 as Print(Add(Get(1), Get(2))) and
\* s:x:i ~ #:"h" $ as Set(Extract(Input, EmptySlot), CatchError("h", Exit))
C31_Witness ==
    /\ parsed.r = "Ok"
    /\ Len(instrs) = 2
    /\ instrs[1].instr =
           InstrFunCall(Fun("Print",
               <<ExprFunCall(Fun("Add",
                     <<ExprFunCall(Fun("Get", <<ExprValue(IntV(1))>>)),
                       ExprFunCall(Fun("Get", <<ExprValue(IntV(2))>>))>>))>>))
    /\ instrs[2].instr =
           InstrFunCall(Fun("Set",
               <<ExprFunCall(Fun("Extract",
                     <<ExprFunCall(Fun("Input", <<>>)),
                       ExprFunCall(Fun("EmptySlot", <<>>))>>)),
                 ExprFunCall(Fun("CatchError",
                     <<ExprValue(StrV(h)), ExprFunCall(Fun("Exit", <<>>))>>))>>))

\* a loop entered by a FunJump is running: the innermost frame has a FunJump
\* below it that has resolved its label
InCallee ==
    \E j \in 1..(Len(stack) - 1) :
        /\ stack[j].k = "interpret_fun_call"
        /\ stack[j].fun.f = "FunJump"
        /\ Len(stack[j].vals) = 1

\* an InterpreterError is pending
WrappedPending == ret.r = "Err" /\ ret.signal.s = "InterpreterError"

\* C32: an error a call raises names that call in error_info.fun; the loop
\* of a FunJump callee that is handed a bare error wraps it with the
\* InstrInfo of the statement at its own cursor; every frame that does not
\* guard with a CatchError hands a wrapped error on as it is, and interpret
\* returns that very InterpreterError.
C32_CalleeSpan ==
    [][ /\ (Len(stack) > 0 /\ Top.k = "interpret_fun_call" /\ ret.r # "Err"
              /\ ret'.r = "Err") =>
            IF ret'.signal.s = "Error"
            THEN ret'.signal.error_info.fun = Top.fun
            ELSE ret'.signal.s \in {"Jump", "Return"}
        /\ (InLoop /\ InCallee /\ ret.r = "Err" /\ ret.signal.s = "Error") =>
            /\ stack' = Pop
            /\ ret' = Err(SignalInterpreterError(
                          InterpreterError(ret.signal.error_info,
                                           instr_infos[Top.i + 1])))
        /\ (Len(stack) > 0 /\ WrappedPending /\ ~Guarding(Top)) =>
            IF Top.k = "interpret"
            THEN result' = [r |-> "Err",
                            interpreter_error |-> ret.signal.interpreter_error]
            ELSE stack' = Pop /\ ret' = ret
      ]_vars

\* interpret has reported the ThrowError of a callee's third statement, not
\* the FunJump statement that called it
C32_Witness ==
    /\ result.r = "Err"
    /\ Len(instr_infos) = 3
    /\ instr_infos[1].instr = Stmt(Call1("FunJump", Lit(StrV(h))))
    /\ result.interpreter_error.instr_info = instr_infos[3]
    /\ instr_infos[3] # instr_infos[1]
    /\ result.interpreter_error.error_info.fun = Fun("ThrowError", <<Lit(IntV(42))>>)
    /\ last = "interpret:return"

\* C33: there is one slot table: no step of a loop and no return into a
\* FunJump changes it, so what a callee has written is what its caller
\* reads.  A callee's loop whose cursor leaves the instruction sequence
\* ends with Ok(None), at a label just as at a statement; the FunJump that
\* is handed a value yields it; and the loop that holds the FunJump
\* statement moves to the instruction after it.
C33_SharedSlots ==
    [][ /\ (InLoop /\ InCallee /\ ret = NoRet /\ Top.i < Len(instr_infos)) =>
            /\ Len(stack') >= Len(stack)
            /\ slots' = slots
        /\ (InLoop /\ InCallee /\ ret = NoRet /\ Top.i >= Len(instr_infos)) =>
            /\ stack' = Pop
            /\ ret' = Ok(NoneV)
            /\ slots' = slots
        /\ (InArm("FunJump") /\ Len(Top.vals) = 1 /\ ret.r = "Ok") =>
            /\ stack' = Pop
            /\ ret' = ret
            /\ slots' = slots
        /\ (InLoop /\ ret.r = "Ok" /\ Top.i < Len(instr_infos)
              /\ instr_infos[Top.i + 1].instr = Stmt(Call1("FunJump", Lit(StrV(h))))) =>
            /\ stack' = SetTop(FrameInstrs(Top.i + 1))
            /\ ret' = NoRet
            /\ slots' = slots
        /\ (InLoop /\ InCallee /\ ret # NoRet) => slots' = slots
      ]_vars

\* f:"h" / p:.0 / ; h / s:0 1: the callee has set slot 0 and run off the
\* end, and the caller, resumed at its second statement, has printed 1
C33_Witness ==
    /\ Len(instr_infos) = 4
    /\ instr_infos[1].instr = Stmt(Call1("FunJump", Lit(StrV(h))))
    /\ instr_infos[2].instr = Stmt(Call1("Print", Call1("Get", Lit(IntV(0)))))
    /\ stack = <<FrameInterpret, FrameInstrs(2)>>
    /\ ret = NoRet
    /\ slots = insert(<<>>, 0, IntV(1))
    /\ out = << <<49, 10>> >>

\* C34: Set asks for its slot first; as soon as it holds a slot value that
\* is not an Int it returns TypeError (code 401) without starting another
\* call; handed any signal it returns that signal and the slot table stays
\* as it is; holding an Int k and a value it stores the value under k and
\* yields None; and no other step of Set writes a slot.
C34_Set ==
    [][ InArm("Set") =>
            IF ret.r = "Err"
            THEN stack' = Pop /\ ret' = ret /\ slots' = slots
            ELSE IF Len(Held) = 0
            THEN /\ stack' = SetTop([Top EXCEPT !.vals = <<>>])
                               \o <<FrameFunCall(Top.fun.args[1].fun, <<>>)>>
                 /\ slots' = slots
            ELSE IF Held[1].t # "Int"
            THEN /\ stack' = Pop
                 /\ ret'.r = "Err" /\ ret'.signal.s = "Error"
                 /\ ret'.signal.error_info.error = TypeError(IntV(0), Held[1])
                 /\ error_code(ret'.signal.error_info.error) = 401
                 /\ slots' = slots /\ out' = out
            ELSE IF Len(Held) = 1
            THEN /\ stack' = SetTop([Top EXCEPT !.vals = Held])
                               \o <<FrameFunCall(Top.fun.args[2].fun, <<>>)>>
                 /\ slots' = slots
            ELSE /\ stack' = Pop
                 /\ ret' = Ok(NoneV)
                 /\ slots' = [x \in DOMAIN slots \cup {Held[1].n} |->
                                 IF x = Held[1].n THEN Held[2] ELSE slots[x]]
      ]_vars

\* s:"h" p:"g" has ended with a TypeError and nothing was printed
C34_Witness ==
    /\ last = "Set:TypeError"
    /\ ret.r = "Err"
    /\ ret.signal.error_info.fun = Fun("Set", <<Lit(StrV(h)), Call1("Print", Lit(StrV(g)))>>)
    /\ ret.signal.error_info.error = TypeError(IntV(0), StrV(h))
    /\ out = <<>>
    /\ slots = <<>>

\* the variant a function accepts where it checks a type: an Int for the
\* slot of Set and Get and for Text, a Str for the label of Jump, FunJump
\* and CatchError and for Number
Accepted(f) ==
    IF f \in {"Set", "Get", "Text"} THEN IntV(0) ELSE StrV(<<>>)

TypeChecking == {"Set", "Get", "Text", "Jump", "FunJump", "CatchError", "Number"}

\* the innermost call returns a TypeError in this step
RaisesTypeError ==
    /\ Len(stack) > 0 /\ Top.k = "interpret_fun_call" /\ ret.r # "Err"
    /\ ret'.r = "Err" /\ ret'.signal.s = "Error"
    /\ ret'.signal.error_info.error.error = "TypeError"

\* C35: a call that returns a TypeError is one of Set, Get, Text, Jump,
\* FunJump, CatchError and Number; `got` is the first argument value it
\* holds, which is not of the accepted variant, and `expected` is a value
\* of the accepted variant.
C35_Expected ==
    [][ RaisesTypeError =>
            /\ Top.fun.f \in TypeChecking
            /\ ret'.signal.error_info.error.got = Held[1]
            /\ Held[1].t # Accepted(Top.fun.f).t
            /\ ret'.signal.error_info.error.expected = Accepted(Top.fun.f)
      ]_vars

\* what holds of every function but Number
C35_ExpectedButNumber ==
    [][ RaisesTypeError =>
            /\ Top.fun.f \in TypeChecking
            /\ ret'.signal.error_info.error.got = Held[1]
            /\ Held[1].t # Accepted(Top.fun.f).t
            /\ ret'.signal.error_info.error.expected =
                   (IF Top.fun.f = "Number" THEN IntV(0) ELSE Accepted(Top.fun.f))
      ]_vars

\* n:0 has returned a TypeError that expects an Int and got an Int
C35_NumberInt ==
    /\ ret.r = "Err" /\ ret.signal.s = "Error"
    /\ ret.signal.error_info.fun = Fun("Number", <<Lit(IntV(0))>>)
    /\ ret.signal.error_info.error = TypeError(IntV(0), IntV(0))

\* t:"h" has returned a TypeError that expects an Int and got the Str
C35_TextStr ==
    /\ ret.r = "Err" /\ ret.signal.s = "Error"
    /\ ret.signal.error_info.fun = Fun("Text", <<Lit(StrV(h))>>)
    /\ ret.signal.error_info.error = TypeError(IntV(0), StrV(h))

\* the innermost call is a Jump, a FunJump or a CatchError that holds the
\* Str of its label and has not looked it up yet
ResolvesLabel ==
    /\ Len(stack) > 0 /\ Top.k = "interpret_fun_call"
    /\ Top.fun.f \in {"Jump", "FunJump", "CatchError"}
    /\ Len(Top.vals) = 0
    /\ ret.r # "Err"
    /\ Len(Held) >= 1
    /\ Held[1].t = "Str"

\* C36: the label table holds every label line of the program, whatever
\* statement is running.  A Jump, FunJump or CatchError that holds a Str
\* which is not in the table returns LabelError (code 402) of that Str, the
\* slot table stays as it is and no loop moves its cursor; CatchError does
\* so before it starts its guarded expression.  With a Str that is in the
\* table, Jump returns the Jump to the label's index, FunJump enters a loop
\* at that index, and CatchError goes on with its guarded expression.
C36_Labels ==
    /\ [](\A j \in 1..Len(instr_infos) :
              IsLabel(instr_infos[j].instr) =>
                  /\ instr_infos[j].instr.name \in DOMAIN labels
                  /\ labels[instr_infos[j].instr.name] = j - 1)
    /\ [][ ResolvesLabel =>
               IF Held[1].s \notin DOMAIN labels
               THEN /\ stack' = Pop
                    /\ ret'.r = "Err" /\ ret'.signal.s = "Error"
                    /\ ret'.signal.error_info.error = LabelError(Held[1].s)
                    /\ error_code(ret'.signal.error_info.error) = 402
                    /\ slots' = slots /\ out' = out
               ELSE CASE Top.fun.f = "Jump" ->
                           /\ stack' = Pop
                           /\ ret' = Err(SignalJump(labels[Held[1].s]))
                           /\ slots' = slots
                      [] Top.fun.f = "FunJump" ->
                           /\ stack' = SetTop([Top EXCEPT !.vals = <<Held[1]>>])
                                         \o <<FrameInstrs(labels[Held[1].s])>>
                           /\ slots' = slots
                      [] Top.fun.f = "CatchError" ->
                           /\ IF Len(Held) = 2
                              THEN stack' = Pop /\ ret' = Ok(Held[2])
                              ELSE stack' = SetTop([Top EXCEPT !.vals = <<Held[1]>>])
                                              \o <<FrameFunCall(Top.fun.args[2].fun, <<>>)>>
                           /\ slots' = slots
         ]_vars

\* #:"g" p:"h" / ; h has ended with the LabelError of g: nothing was
\* printed and slot -1 was not written
C36_Witness ==
    /\ result.r = "Err"
    /\ result.interpreter_error.error_info.error = LabelError(g)
    /\ result.interpreter_error.error_info.fun =
           Fun("CatchError", <<Lit(StrV(g)), Call1("Print", Lit(StrV(h)))>>)
    /\ out = <<>>
    /\ slots = <<>>

\* ; h / s:0 1 / #:"g" j:"g" / ; g: the CatchError and the Jump have found the
\* label of the line after them
C36_Forward ==
    /\ Len(instr_infos) = 4
    /\ instr_infos[3].instr =
           Stmt(Call2("CatchError", Lit(StrV(g)), Call1("Jump", Lit(StrV(g)))))
    /\ last = "loop:Jump"
    /\ stack = <<FrameInterpret, FrameInstrs(4)>>
    /\ slots = insert(<<>>, 0, IntV(1))

\* the iteration at the cursor scans an identifier or an integer
ScansWord == AtChar /\ (IsIdnStart(Cur) \/ IsDigit(Cur) \/ Cur = 45)

\* where `i -= 1` leaves the cursor in that iteration
Back ==
    IF IsIdnStart(Cur) THEN StepBack(IdnEnd(chars, char_i))
    ELSE StepBack(IntEnd(chars, char_i + 1).k)

\* an iteration of the outer loop ends with the cursor further on and not
\* beyond the length of the input, or tokenize returns
Progress ==
    tokenized.r = "while" =>
        IF tokenized'.r = "while"
        THEN char_i < char_i' /\ char_i' <= Len(chars)
        ELSE tokenized'.r \in {"Ok", "Err"} /\ char_i' = char_i

\* the tokens pushed so far lie within the input, each starting after the
\* one before it
InOrder ==
    /\ char_i <= Len(chars)
    /\ \A a \in 1..Len(tokens) :
           /\ tokens[a].start < Len(chars)
           /\ tokens[a].start <= tokens[a].end
           /\ tokens[a].end <= Len(chars)
           /\ \A b \in 1..Len(tokens) : a < b => tokens[a].start < tokens[b].start

\* C37 as stated: every iteration either returns or moves the cursor on,
\* never beyond the length of the input, so that tokenize returns;
\* the step back after an identifier or an integer leaves the cursor after
\* the token's first character; the tokens are in order of their starts.
C37_Original ==
    [][ /\ Progress
        /\ InOrder'
        /\ (ScansWord /\ tokenized'.r = "while") => Back > char_i
      ]_vars

\* C37: every iteration of the outer loop either returns a SyntaxError or
\* moves the cursor on, never beyond the length of the input, where tokenize
\* returns the token list: no run has more iterations than the input has
\* characters.  The step back after an identifier or an integer leaves the
\* cursor on the token's last character, which is its first character when
\* the token has one character and is never before it, and the iteration
\* ends one character further; the tokens lie within the input in
\* increasing order of their starts.
C37_Tokenize ==
    [][ /\ Progress
        /\ InOrder'
        /\ (ScansWord /\ tokenized'.r = "while") =>
               /\ Back >= char_i
               /\ char_i' = Back + 1
               /\ tokens'[Len(tokens')].start = char_i
               /\ tokens'[Len(tokens')].end = char_i'
      ]_vars

\* s:0 has been tokenized: after the one-character identifier and the
\* one-character integer the cursor went on by one
C37_Witness ==
    /\ chars = <<115, 58, 48>>
    /\ tokenized.r = "Ok"
    /\ Len(tokens) = 3
    /\ tokens[1] = TokenInfo(0, 1, TokIdn(<<115>>))
    /\ tokens[2] = TokenInfo(1, 1, Tok("Col"))
    /\ tokens[3] = TokenInfo(2, 3, TokInt(0))
    /\ char_i = 3

=============================================================================
